---- MODULE Spec2Model ----
(***************************************************************************)
(* DirectFB video sink (dfbvideosink): the surface/buffer pool, the        *)
(* reverse negotiation in front of it, and the sink state the pool's       *)
(* decisions read.  Each handler is a sequence of steps of the calling     *)
(* thread; a step is the code between two synchronisation points.          *)
(***************************************************************************)
EXTENDS Integers, Sequences, FiniteSets, TLC

\* ------------------------------------------------------------------ bounds

\* Buffers (GstDfbSurface objects) ever created in one behaviour.
MaxBuffers == 3

\* Buffers ever created in one behaviour of two interleaved threads.
ConcBuffers == 2

\* Buffers ever created in one behaviour that exercises the creation.
CreateBuffers == 1

\* The longest side of a rectangle the geometry fitter is applied to.
MaxSide == 4

\* The longest list of video modes the mode selection is applied to.
MaxModes == 3

\* Buffers ever created in one behaviour under fair scheduling.
FairBuffers == 2

\* Buffers ever created in one behaviour that shows frames.
RenderBuffers == 1

\* Buffers ever created in one behaviour on a device without video modes.
DefaultBuffers == 2

\* The two threads of the interleaved behaviours (a streaming thread, the
\* application).
Threads == {"t1", "t2"}

\* The thread whose calls are recorded: the only thread of the
\* single-threaded behaviours, the streaming thread where frames are shown,
\* the application's thread where the sink's lifetime is followed.
MainThread == "main"

Callers == Threads \cup {MainThread}

\* The two threads by what they do: the streaming thread of the pipeline
\* and the thread of the application.
Streaming == "t1"
Application == "t2"

\* ------------------------------------------------------- values and device

NULL == 0
NoThread == "none"

\* dfbvideosink->pool_lock after g_mutex_free (line 2904).
Freed == "freed"
G_BIG_ENDIAN == 4321

BufIds == 1..MaxBuffers

\* The output device as DirectFB reports it: size of the primary surface,
\* the size of an application-provided surface, the video modes
\* EnumVideoModes lists, the line padding Lock may add to a surface line.
PrimarySize == [w |-> 4, h |-> 4]
ExtSurfaceSize == [w |-> 2, h |-> 2]
DeviceModes == << [width |-> 4, height |-> 4, bpp |-> 16] >>
PitchPads == {0, 4}

\* ---------------------------------------------------- pixel-format tables

\* A variant of gst_dfbvideosink_get_caps_from_format: the RGB32 row carries
\* ARGB's depth.
get_caps_from_format_depth32(format) ==
  CASE format = "RGB16" ->
         [name |-> "video/x-raw-rgb", bpp |-> 16, depth |-> 16,
          red_mask |-> 63488, green_mask |-> 2016, blue_mask |-> 31,
          endianness |-> G_BIG_ENDIAN]
    [] format = "RGB24" ->
         [name |-> "video/x-raw-rgb", bpp |-> 24, depth |-> 24,
          red_mask |-> 16711680, green_mask |-> 65280, blue_mask |-> 255,
          endianness |-> G_BIG_ENDIAN]
    [] format = "RGB32" ->
         [name |-> "video/x-raw-rgb", bpp |-> 32, depth |-> 32,
          red_mask |-> 16711680, green_mask |-> 65280, blue_mask |-> 255,
          endianness |-> G_BIG_ENDIAN]
    [] format = "ARGB" ->
         [name |-> "video/x-raw-rgb", alpha_mask |-> -16777216,
          bpp |-> 32, depth |-> 32,
          red_mask |-> 16711680, green_mask |-> 65280, blue_mask |-> 255,
          endianness |-> G_BIG_ENDIAN]
    [] format \in {"YUY2", "UYVY", "I420", "YV12", "NV12"} ->
         [name |-> "video/x-raw-yuv", format |-> format]
    [] OTHER -> NULL

\* gst_dfbvideosink_get_caps_from_format: the canonical descriptor of a format.
get_caps_from_format(format) ==
  CASE format = "RGB16" ->
         [name |-> "video/x-raw-rgb", bpp |-> 16, depth |-> 16,
          red_mask |-> 63488, green_mask |-> 2016, blue_mask |-> 31,
          endianness |-> G_BIG_ENDIAN]
    [] format = "RGB24" ->
         [name |-> "video/x-raw-rgb", bpp |-> 24, depth |-> 24,
          red_mask |-> 16711680, green_mask |-> 65280, blue_mask |-> 255,
          endianness |-> G_BIG_ENDIAN]
    [] format = "RGB32" ->
         [name |-> "video/x-raw-rgb", bpp |-> 32, depth |-> 24,
          red_mask |-> 16711680, green_mask |-> 65280, blue_mask |-> 255,
          endianness |-> G_BIG_ENDIAN]
    [] format = "ARGB" ->
         \* 0xff000000 stored in a gint: -16777216
         [name |-> "video/x-raw-rgb", alpha_mask |-> -16777216,
          bpp |-> 32, depth |-> 32,
          red_mask |-> 16711680, green_mask |-> 65280, blue_mask |-> 255,
          endianness |-> G_BIG_ENDIAN]
    [] format \in {"YUY2", "UYVY", "I420", "YV12", "NV12"} ->
         [name |-> "video/x-raw-yuv", format |-> format]
    [] OTHER -> NULL

\* A variant of the field reads: the alpha mask is never found.
HasFieldNotAlpha(s, f) == f \in DOMAIN s /\ f # "alpha_mask"

\* gst_structure_get_int / get_fourcc: TRUE iff the field is present.
HasField(s, f) == f \in DOMAIN s

\* gst_dfbvideosink_get_format_from_caps
get_format_from_caps(s) ==
  IF s.name = "video/x-raw-rgb" THEN
    LET ret == /\ HasField(s, "bpp") /\ HasField(s, "depth")
               /\ HasField(s, "endianness") /\ HasField(s, "red_mask")
               /\ HasField(s, "green_mask") /\ HasField(s, "blue_mask")
        have_alpha == HasField(s, "alpha_mask")
    IN IF ~ret THEN "UNKNOWN"
       ELSE IF ~have_alpha THEN
         IF s.bpp = 16 /\ s.depth = 16 /\ s.endianness = G_BIG_ENDIAN
            /\ s.red_mask = 63488 /\ s.green_mask = 2016 /\ s.blue_mask = 31
         THEN "RGB16"
         ELSE IF s.bpp = 24 /\ s.depth = 24 /\ s.endianness = G_BIG_ENDIAN
            /\ s.red_mask = 16711680 /\ s.green_mask = 65280
            /\ s.blue_mask = 255
         THEN "RGB24"
         ELSE IF s.bpp = 32 /\ s.depth = 24 /\ s.endianness = G_BIG_ENDIAN
            /\ s.red_mask = 16711680 /\ s.green_mask = 65280
            /\ s.blue_mask = 255
         THEN "RGB32"
         ELSE "UNKNOWN"
       ELSE
         IF s.bpp = 32 /\ s.depth = 32 /\ s.endianness = G_BIG_ENDIAN
            /\ s.alpha_mask = -16777216 /\ s.red_mask = 16711680
            /\ s.green_mask = 65280 /\ s.blue_mask = 255
         THEN "ARGB"
         ELSE "UNKNOWN"
  ELSE IF s.name = "video/x-raw-yuv" THEN
    IF ~HasField(s, "format") THEN "UNKNOWN"
    ELSE IF s.format \in {"I420", "YV12", "YUY2", "UYVY", "NV12"}
         THEN s.format
         ELSE "UNKNOWN"
  ELSE "UNKNOWN"

\* ---------------------------------------------------------- geometry fitter

\* Integer division of non-negative operands, truncating.
TruncDiv(a, b) == a \div b

\* A rectangle with a side of zero.
Degenerate(r) == r.w = 0 \/ r.h = 0

\* A variant of gst_video_sink_center_rect: without scaling the source is
\* centered and not clipped.
video_sink_center_rect_unclipped(src, dst, scaling) ==
  IF ~scaling THEN
    [x |-> (dst.w - src.w) \div 2, y |-> (dst.h - src.h) \div 2,
     w |-> src.w, h |-> src.h]
  ELSE IF Degenerate(src) \/ Degenerate(dst) THEN
    [x |-> dst.w \div 2, y |-> dst.h \div 2, w |-> 0, h |-> 0]
  ELSE IF src.w * dst.h > dst.w * src.h THEN
    LET h == TruncDiv(dst.w * src.h, src.w)
    IN [x |-> 0, y |-> (dst.h - h) \div 2, w |-> dst.w, h |-> h]
  ELSE IF dst.w * src.h > src.w * dst.h THEN
    LET w == TruncDiv(dst.h * src.w, src.h)
    IN [x |-> (dst.w - w) \div 2, y |-> 0, w |-> w, h |-> dst.h]
  ELSE [x |-> 0, y |-> 0, w |-> dst.w, h |-> dst.h]

\* A variant of gst_video_sink_center_rect: with scaling, a source without
\* a height or without a width is given the whole destination.
video_sink_center_rect_fills(src, dst, scaling) ==
  IF ~scaling THEN
    LET w == IF src.w < dst.w THEN src.w ELSE dst.w
        h == IF src.h < dst.h THEN src.h ELSE dst.h
    IN [x |-> (dst.w - w) \div 2, y |-> (dst.h - h) \div 2, w |-> w, h |-> h]
  ELSE IF Degenerate(src) \/ Degenerate(dst) THEN
    [x |-> 0, y |-> 0, w |-> dst.w, h |-> dst.h]
  ELSE IF src.w * dst.h > dst.w * src.h THEN
    LET h == TruncDiv(dst.w * src.h, src.w)
    IN [x |-> 0, y |-> (dst.h - h) \div 2, w |-> dst.w, h |-> h]
  ELSE IF dst.w * src.h > src.w * dst.h THEN
    LET w == TruncDiv(dst.h * src.w, src.h)
    IN [x |-> (dst.w - w) \div 2, y |-> 0, w |-> w, h |-> dst.h]
  ELSE [x |-> 0, y |-> 0, w |-> dst.w, h |-> dst.h]

\* gst_video_sink_center_rect (libgstvideo), called at lines 1909 and 2121:
\* the center-and-letterbox rectangle relative to the destination.  Without
\* scaling the source is centered, and clipped to the destination.  With
\* scaling it is scaled into the destination with its aspect ratio kept, in
\* integer arithmetic that truncates; an input with a side of zero raises no
\* error and gives a rectangle of zero width and height.
video_sink_center_rect(src, dst, scaling) ==
  IF ~scaling THEN
    LET w == IF src.w < dst.w THEN src.w ELSE dst.w
        h == IF src.h < dst.h THEN src.h ELSE dst.h
    IN [x |-> (dst.w - w) \div 2, y |-> (dst.h - h) \div 2, w |-> w, h |-> h]
  ELSE IF Degenerate(src) \/ Degenerate(dst) THEN
    [x |-> dst.w \div 2, y |-> dst.h \div 2, w |-> 0, h |-> 0]
  ELSE IF src.w * dst.h > dst.w * src.h THEN
    LET h == TruncDiv(dst.w * src.h, src.w)
    IN [x |-> 0, y |-> (dst.h - h) \div 2, w |-> dst.w, h |-> h]
  ELSE IF dst.w * src.h > src.w * dst.h THEN
    LET w == TruncDiv(dst.h * src.w, src.h)
    IN [x |-> (dst.w - w) \div 2, y |-> 0, w |-> w, h |-> dst.h]
  ELSE [x |-> 0, y |-> 0, w |-> dst.w, h |-> dst.h]

\* A variant of gst_dfbvideosink_center_rect: the stretch branch is never
\* taken.
center_rect_always_fit(src, dst, scaling, keep_aspect_ratio) ==
  LET r == video_sink_center_rect(src, dst, scaling)
  IN [x |-> r.x + dst.x, y |-> r.y + dst.y, w |-> r.w, h |-> r.h]

\* gst_dfbvideosink_center_rect
center_rect(src, dst, scaling, keep_aspect_ratio) ==
  IF scaling /\ ~keep_aspect_ratio THEN
    [x |-> dst.x, y |-> dst.y, w |-> dst.w, h |-> dst.h]
  ELSE
    LET r == video_sink_center_rect(src, dst, scaling)
    IN [x |-> r.x + dst.x, y |-> r.y + dst.y, w |-> r.w, h |-> r.h]

\* ------------------------------------------------------------- video modes

Abs(n) == IF n < 0 THEN -n ELSE n

\* A variant of the loop: a mode with the same gap sum replaces the one
\* kept so far.
RECURSIVE BestVModeFromLastWins(_, _, _, _)
BestVModeFromLastWins(modes, best, v_width, v_height) ==
  IF modes = <<>> THEN best
  ELSE LET vmode == Head(modes)
           gap == Abs(vmode.width - v_width) + Abs(vmode.height - v_height)
           best_gap == Abs(best.width - v_width) + Abs(best.height - v_height)
       IN BestVModeFromLastWins(Tail(modes),
                                IF gap <= best_gap THEN vmode ELSE best,
                                v_width, v_height)

\* The loop of gst_dfbvideosink_get_best_vmode over a non-empty list: `best`
\* is the mode kept so far, replaced only by a strictly smaller gap sum.
RECURSIVE BestVModeFrom(_, _, _, _)
BestVModeFrom(modes, best, v_width, v_height) ==
  IF modes = <<>> THEN best
  ELSE LET vmode == Head(modes)
           gap == Abs(vmode.width - v_width) + Abs(vmode.height - v_height)
           best_gap == Abs(best.width - v_width) + Abs(best.height - v_height)
       IN BestVModeFrom(Tail(modes),
                        IF gap < best_gap THEN vmode ELSE best,
                        v_width, v_height)

\* A variant of gst_dfbvideosink_get_best_vmode: the mode kept at the start
\* is the last of the list.
get_best_vmode_from_last(modes, v_width, v_height) ==
  IF modes = <<>> THEN [ret |-> FALSE, vmode |-> NULL]
  ELSE [ret |-> TRUE,
        vmode |-> BestVModeFrom(modes, modes[Len(modes)], v_width, v_height)]

\* gst_dfbvideosink_get_best_vmode: [ret, vmode]; vmode is unset when ret
\* is FALSE.
get_best_vmode(modes, v_width, v_height) ==
  IF modes = <<>> THEN [ret |-> FALSE, vmode |-> NULL]
  ELSE [ret |-> TRUE,
        vmode |-> BestVModeFrom(modes, Head(modes), v_width, v_height)]

\* ------------------------------------------------------------------- caps

\* A frame descriptor (the first GstStructure of a GstCaps): the canonical
\* descriptor of a format with the frame geometry and a framerate.
CapsOf(format, w, h) ==
  [width |-> w, height |-> h, framerate |-> <<25, 1>>]
    @@ get_caps_from_format(format)

\* A descriptor without width and height.
NoGeomCaps == get_caps_from_format("RGB16")

\* A descriptor with a width and no height.
WidthOnlyCaps == [width |-> 2] @@ get_caps_from_format("RGB16")

\* A descriptor no table row matches (15-bit RGB).
UnknownCaps ==
  [CapsOf("RGB16", 4, 4) EXCEPT !.depth = 15]

\* The descriptors upstream asks buffers for and negotiates with.
AllocCaps ==
  { CapsOf("RGB16", 2, 2), CapsOf("RGB16", 4, 4), CapsOf("RGB32", 4, 4) }

\* The descriptors two interleaved threads use.
ConcCaps == { CapsOf("RGB16", 2, 2), CapsOf("RGB16", 4, 4) }

\* The descriptors gst_dfbvideosink_surface_create is exercised with.
CreateCaps ==
  { CapsOf(f, n, n) : f \in {"RGB16", "RGB24", "RGB32", "ARGB"},
                      n \in {2, 4} }
    \cup { NoGeomCaps, WidthOnlyCaps, UnknownCaps }

HasGeometry(caps) == HasField(caps, "width") /\ HasField(caps, "height")

\* The byte count the framework requests with a descriptor: bpp/8 bytes per
\* pixel for packed RGB frames, a fixed block when there is no geometry.
RequestSize(caps) ==
  IF HasGeometry(caps) THEN (caps.bpp \div 8) * caps.width * caps.height
  ELSE 8

\* The byte counts gst_dfbvideosink_surface_create is exercised with: the
\* frame size, and the frame size with a trailer.
CreateSizes(caps) == { RequestSize(caps), RequestSize(caps) + 4 }

\* What an uninitialised gint may hold (width, height of buffer_alloc when
\* the descriptor has no geometry).
GarbageInts == {0, 2, 4}

\* DirectFB: bytes per pixel of a surface line (DFB_BYTES_PER_PIXEL).
BytesPerPixel(format) ==
  CASE format \in {"RGB16", "YUY2", "UYVY"} -> 2
    [] format = "RGB24" -> 3
    [] format \in {"RGB32", "ARGB"} -> 4
    [] OTHER -> 1

\* The pixel format of the primary (or external) surface.
DevicePixelFormat == "RGB16"

\* ------------------------------------------------------------------ state

VARIABLES
  state,          \* GstElement state: "NULL", "READY", "PAUSED"
  setup,          \* dfbvideosink->setup
  dfb,            \* dfbvideosink->dfb != NULL
  ext_surface,    \* dfbvideosink->ext_surface != NULL
  hw_scaling,     \* dfbvideosink->hw_scaling
  keep_ar,        \* dfbvideosink->keep_ar
  vmodes,         \* dfbvideosink->vmodes
  out_size,       \* [w, h]: dfbvideosink->out_width, out_height
  video_width,    \* dfbvideosink->video_width
  video_height,   \* dfbvideosink->video_height
  pixel_format,   \* dfbvideosink->pixel_format
  fps,            \* <<fps_n, fps_d>>
  buffer_pool,    \* dfbvideosink->buffer_pool: sequence of buffer ids
  pool_lock,      \* holder of dfbvideosink->pool_lock, or NoThread
  surfaces,       \* every GstDfbSurface by id
  created,        \* number of GstDfbSurface objects created so far
  window,         \* dfbvideosink->window: [x, y, w, h]
  frame_rendered, \* dfbvideosink->frame_rendered
  posted,         \* FrameRendered messages posted since PAUSED_TO_PLAYING
  shown,          \* 1 when a frame was shown since PAUSED_TO_PLAYING, else 0
  running,        \* dfbvideosink->running
  event_thread,   \* dfbvideosink->event_thread != NULL
  ev,             \* the event thread: "none", "loop" or "exited"
  owned,          \* the application holds its reference on the sink
  finalized,      \* gst_dfbvideosink_finalize has returned
  layer,          \* dfbvideosink->layer != NULL
  primary,        \* dfbvideosink->primary != NULL
  backbuffer,     \* dfbvideosink->backbuffer
  vsync,          \* dfbvideosink->vsync
  th              \* per thread: the handler it runs, its position and locals

vars == << state, setup, dfb, ext_surface, hw_scaling, keep_ar, vmodes,
           out_size, video_width, video_height, pixel_format, fps,
           buffer_pool, pool_lock, surfaces, created, window,
           frame_rendered, posted, shown, running, event_thread, ev, owned,
           finalized, layer, primary, backbuffer, vsync, th >>

sinkcfg == << dfb, ext_surface, hw_scaling, keep_ar, vmodes >>
geometry == << video_width, video_height, pixel_format, fps >>
display == << window, frame_rendered, posted, shown >>
lifecycle == << running, event_thread, ev, owned, finalized >>
device == << layer, primary, backbuffer, vsync >>

\* gst_dfbsurface_init, before the object exists.
NoSurface ==
  [st |-> "none", width |-> 0, height |-> 0, pixel_format |-> "UNKNOWN",
   size |-> 0, surface |-> FALSE, locked |-> FALSE, destroys |-> 0,
   sink |-> FALSE]

\* The (width, height, pixel_format) a GstDfbSurface carries.
TagOf(s) == << s.width, s.height, s.pixel_format >>

\* gst_dfbvideosink_init
Init ==
  /\ state = "NULL"
  /\ setup = FALSE
  /\ dfb = FALSE
  /\ ext_surface = FALSE
  /\ hw_scaling = FALSE
  /\ keep_ar = TRUE
  /\ vmodes = <<>>
  /\ out_size = [w |-> 0, h |-> 0]
  /\ video_width = 0
  /\ video_height = 0
  /\ pixel_format = "UNKNOWN"
  /\ fps = <<0, 0>>
  /\ buffer_pool = <<>>
  /\ pool_lock = NoThread
  /\ surfaces = [b \in BufIds |-> NoSurface]
  /\ created = 0
  /\ window = [x |-> 0, y |-> 0, w |-> 0, h |-> 0]
  /\ frame_rendered = FALSE
  /\ posted = 0
  /\ shown = 0
  /\ running = FALSE
  /\ event_thread = FALSE
  /\ ev = "none"
  /\ owned = TRUE
  /\ finalized = FALSE
  /\ layer = FALSE
  /\ primary = FALSE
  /\ backbuffer = FALSE
  /\ vsync = TRUE
  /\ th = [t \in Callers |-> [pc |-> "idle"]]

\* A thread that is in no handler: it may call one.
DonePcs ==
  {"idle", "alloc_done", "fin_done", "setcaps_done", "state_done",
   "format_done", "caps_done", "fit_done", "vmode_done", "show_done",
   "copy_done", "unref_done", "finalize_done"}
\* A thread called through a NULL pointer: the process was killed, no
\* thread of it takes another step.
Crashed == \E u \in DOMAIN th : th[u].pc = "crashed"

Ready(t) == th[t].pc \in DonePcs /\ owned /\ ~Crashed

\* th when thread t has returned from a call.  The record r of the call
\* (its arguments, what it read and what it returned) is history: it is kept,
\* until the thread's next call, for MainThread only.
Returned(t, r) ==
  [th EXCEPT ![t] = IF t = MainThread THEN r ELSE [pc |-> "idle"]]

\* The release of a buffer inside which thread t runs the sink's finalize:
\* a sequence of one record, or empty.
Nested(t) == IF "nested" \in DOMAIN th[t] THEN th[t].nested ELSE <<>>

\* Threads inside buffer_alloc that may still create a buffer.
Allocating == {t \in Callers : th[t].pc \in
                 {"alloc_lock", "alloc_scan", "alloc_create"}}

\* ------------------------------------------------------- surface lifecycle

\* gst_dfbvideosink_surface_destroy, lines 321-334: the native surface is
\* released and the reference on the sink is dropped; the object is not
\* freed yet.
surface_release(s, b) ==
  [s EXCEPT ![b] = [@ EXCEPT !.st = "destroying", !.surface = FALSE,
                             !.locked = FALSE, !.sink = FALSE]]

\* gst_dfbvideosink_surface_destroy, whole, when the reference it drops is
\* not the last one on the sink: the native surface is released, the
\* reference dropped, the object freed (line 336).
surface_destroy(s, b) ==
  [s EXCEPT ![b] = [NoSurface EXCEPT !.st = "destroyed",
                       !.destroys = IF s[b].destroys < 2
                                    THEN s[b].destroys + 1 ELSE 2]]

\* A variant of gst_dfbvideosink_surface_create: the size of the locked
\* surface is not compared with the requested size.
surface_create_any_pitch(caps, size, have_dfb, create_ok, pad) ==
  LET geom == HasGeometry(caps)
      w == IF HasField(caps, "width") THEN caps.width ELSE 0
      h == IF geom THEN caps.height ELSE 0
      format == IF geom THEN get_format_from_caps(caps) ELSE "UNKNOWN"
      native == geom /\ format # "UNKNOWN" /\ have_dfb /\ create_ok
      pitch == w * BytesPerPixel(format) + pad
  IN [st |-> "borrowed", width |-> w, height |-> h, pixel_format |-> format,
      size |-> IF native THEN pitch * h ELSE size,
      surface |-> native, locked |-> native, destroys |-> 0,
      sink |-> TRUE]

\* A variant of gst_dfbvideosink_surface_create: the object takes no
\* reference on the sink.
surface_create_no_sink_ref(caps, size, have_dfb, create_ok, pad) ==
  LET geom == HasGeometry(caps)
      w == IF HasField(caps, "width") THEN caps.width ELSE 0
      h == IF geom THEN caps.height ELSE 0
      format == IF geom THEN get_format_from_caps(caps) ELSE "UNKNOWN"
      native == geom /\ format # "UNKNOWN" /\ have_dfb /\ create_ok
      pitch == w * BytesPerPixel(format) + pad
      fits == native /\ pitch * h = size
  IN [st |-> "borrowed", width |-> w, height |-> h, pixel_format |-> format,
      size |-> size, surface |-> fits, locked |-> fits, destroys |-> 0,
      sink |-> FALSE]

\* gst_dfbvideosink_surface_create: the new object, holding a reference on
\* the sink (line 213).  create_ok: CreateSurface returned DFB_OK; pad: the
\* line padding of the created surface.  The width is stored before the
\* height is looked up (lines 220-221).
surface_create(caps, size, have_dfb, create_ok, pad) ==
  LET geom == HasGeometry(caps)
      w == IF HasField(caps, "width") THEN caps.width ELSE 0
      h == IF geom THEN caps.height ELSE 0
      format == IF geom THEN get_format_from_caps(caps) ELSE "UNKNOWN"
      native == geom /\ format # "UNKNOWN" /\ have_dfb /\ create_ok
      pitch == w * BytesPerPixel(format) + pad
      fits == native /\ pitch * h = size
  IN [st |-> "borrowed", width |-> w, height |-> h, pixel_format |-> format,
      size |-> size, surface |-> fits, locked |-> fits, destroys |-> 0,
      sink |-> TRUE]

\* The buffers whose dfbvideosink field holds a reference on the sink.
SinkHolders(s) == {b \in BufIds : s[b].sink}

\* ----------------------------------------------------------- buffer_alloc

\* A variant of the test of line 2340: the reverse negotiation is never
\* skipped.
NeverSkipped == FALSE

\* Line 2340: with hardware scaling buffer_alloc goes to `alloc:` at once.
SkipReverseNegotiation == hw_scaling

\* A variant of lines 2391-2395: the byte size is not recomputed.
ProposalSizeKept(size, width, height, w, h) == size

\* Lines 2391-2395: the byte size for an accepted proposal of w x h, from
\* the bytes per pixel of the request of `size` bytes for width x height.
ProposalSize(size, width, height, w, h) ==
  LET bpp == (size \div height) \div width
  IN bpp * w * h

\* A variant of lines 2353-2359: the size of the primary surface is taken
\* whether or not an external surface is set.
primary_size_only == PrimarySize

\* Lines 2353-2359: the size the request is fitted into when no video mode
\* is found: the external surface's, or else the primary surface's.
device_default_size ==
  IF ext_surface THEN ExtSurfaceSize ELSE PrimarySize

\* The reverse negotiation of gst_dfbvideosink_buffer_alloc (lines
\* 2334-2407) for a descriptor with geometry: what the pool scan and the
\* allocation will use.  peer: "none" (no peer pad), "accepts" or "refuses"
\* (gst_pad_accept_caps on the proposal).
\* asked: gst_pad_accept_caps was called on the peer.  null_deref: no video
\* mode was found, no application surface is set and primary is NULL, so
\* line 2356 calls GetSize through the NULL pointer.
ReverseNegotiate(caps, size, peer) ==
  LET width == caps.width
      height == caps.height
      best == get_best_vmode(vmodes, width, height)
      dst == IF best.ret
             THEN [x |-> 0, y |-> 0, w |-> best.vmode.width,
                   h |-> best.vmode.height]
             ELSE [x |-> 0, y |-> 0, w |-> device_default_size.w,
                   h |-> device_default_size.h]
      result == center_rect([x |-> 0, y |-> 0, w |-> width, h |-> height],
                            dst, TRUE, keep_ar)
      same == [width |-> width, height |-> height, size |-> size,
               rev_nego |-> FALSE, asked |-> FALSE,
               null_deref |-> ~SkipReverseNegotiation /\ ~best.ret
                                /\ ~ext_surface /\ ~primary,
               out |-> IF best.ret THEN out_size
                       ELSE [w |-> dst.w, h |-> dst.h]]
  IN IF SkipReverseNegotiation
       THEN [same EXCEPT !.out = out_size]
     ELSE IF width = result.w /\ height = result.h THEN same
     ELSE IF peer = "none" THEN same
     ELSE IF peer = "accepts"
       THEN [same EXCEPT !.width = result.w, !.height = result.h,
                         !.size = ProposalSize(size, width, height,
                                               result.w, result.h),
                         !.rev_nego = TRUE, !.asked = TRUE]
     ELSE [same EXCEPT !.width = video_width, !.height = video_height,
                       !.asked = TRUE]

\* The caps buffer_alloc creates the buffer from and attaches to it:
\* desired_caps (the proposal) after an accepted reverse negotiation, the
\* caller's caps otherwise.
GivenCaps(l) ==
  IF l.rev_nego THEN [l.caps EXCEPT !.width = l.width, !.height = l.height]
  ELSE l.caps

\* The release the thread's previous call was, if it was one.
LastRelease(t) ==
  IF th[t].pc = "fin_done"
  THEN [buf |-> th[t].buf, tag |-> th[t].tag, recycle |-> th[t].recycle]
  ELSE [buf |-> NULL, tag |-> << >>, recycle |-> FALSE]

\* The record of a call that has not returned: the locals of the call, and
\* for the thread whose calls the properties are stated about what the call
\* found on its way.
InCall(t, locals, found) ==
  [th EXCEPT ![t] = IF t = MainThread THEN locals @@ found ELSE locals]

\* gst_dfbvideosink_buffer_alloc, entry to the `alloc:` label.  Not set up:
\* returns GST_FLOW_OK with *buf = NULL.  max: the buffers a behaviour may
\* create; a call enters when it can still create one or the pool holds an
\* entry its scan accepts.
BufferAllocEnter(t, caps, size, peer, gw, gh, max) ==
  /\ Ready(t)
  /\ IF ~setup THEN
       /\ th' = Returned(t, [pc |-> "alloc_done", caps |-> caps,
                             req_size |-> size, was_setup |-> FALSE,
                             buf |-> NULL, hit |-> FALSE])
       /\ UNCHANGED out_size
     ELSE
       LET n == IF HasGeometry(caps)
                THEN ReverseNegotiate(caps, size, peer)
                ELSE [width |-> IF HasField(caps, "width") THEN caps.width
                                ELSE gw,
                      height |-> gh, size |-> size, rev_nego |-> FALSE,
                      asked |-> FALSE, null_deref |-> FALSE,
                      out |-> out_size]
       IN IF n.null_deref
          THEN /\ th' = [th EXCEPT ![t] = [pc |-> "crashed"]]
               /\ UNCHANGED out_size
          ELSE /\ \/ created + Cardinality(Allocating) < max
                  \/ \E i \in 1..Len(buffer_pool) :
                       TagOf(surfaces[buffer_pool[i]])
                         = << n.width, n.height, pixel_format >>
               /\ th' = InCall(t, [pc |-> "alloc_lock", caps |-> caps,
                                   width |-> n.width, height |-> n.height,
                                   size |-> n.size, rev_nego |-> n.rev_nego,
                                   surface |-> NULL],
                               [req_size |-> size, was_setup |-> TRUE,
                                asked |-> n.asked,
                                hw_scaling |-> hw_scaling,
                                last |-> LastRelease(t)])
               /\ out_size' = n.out
  /\ UNCHANGED << device, display, lifecycle, state, setup, sinkcfg, geometry,
                  buffer_pool, pool_lock, surfaces, created >>

\* g_mutex_lock (pool_lock) at line 2411.  The record of the call keeps the
\* pool and the tags of its entries as the scan finds them (pool0, tags0,
\* format0).
BufferAllocLock(t) ==
  /\ th[t].pc = "alloc_lock" /\ ~Crashed
  /\ pool_lock = NoThread
  /\ pool_lock' = t
  /\ th' = InCall(t, [th[t] EXCEPT !.pc = "alloc_scan"],
                  [pool0 |-> buffer_pool,
                   tags0 |-> [i \in 1..Len(buffer_pool) |->
                                TagOf(surfaces[buffer_pool[i]])],
                   format0 |-> pixel_format])
  /\ UNCHANGED << device, display, lifecycle, state, setup, sinkcfg, out_size,
                  geometry, buffer_pool, surfaces, created >>

\* The test of the scan loop, lines 2422-2424: the surface is invalid for
\* the request.
ScanMismatch(surface, width, height, format) ==
  \/ surface.width # width
  \/ surface.height # height
  \/ surface.pixel_format # format

\* One iteration of the scan loop, lines 2412-2432: the head is removed from
\* the pool, destroyed when it is invalid for the request, kept otherwise.
BufferAllocScan(t) ==
  /\ th[t].pc = "alloc_scan" /\ ~Crashed
  /\ buffer_pool # <<>>
  /\ th[t].surface = NULL
  /\ LET b == Head(buffer_pool)
     IN /\ buffer_pool' = Tail(buffer_pool)
        /\ IF ScanMismatch(surfaces[b], th[t].width, th[t].height,
                           pixel_format)
           THEN /\ surfaces' = surface_destroy(surfaces, b)
                /\ UNCHANGED th
           ELSE /\ surfaces' = [surfaces EXCEPT ![b].st = "taken"]
                /\ th' = [th EXCEPT ![t].surface = b]
  /\ UNCHANGED << device, display, lifecycle, state, setup, sinkcfg, out_size,
                  geometry, pool_lock, created >>

\* A variant of the loop exit: the pool lock is not unlocked.
BufferAllocLeavesLocked(t) ==
  /\ th[t].pc = "alloc_scan" /\ ~Crashed
  /\ buffer_pool = <<>> \/ th[t].surface # NULL
  /\ th' = [th EXCEPT ![t].pc = "alloc_create"]
  /\ UNCHANGED << device, display, lifecycle, state, setup, sinkcfg, out_size,
                  geometry, buffer_pool, pool_lock, surfaces, created >>

\* Loop exit and g_mutex_unlock (pool_lock) at line 2433.  The record of the
\* call keeps the pool the scan left (pool1).
BufferAllocUnlock(t) ==
  /\ th[t].pc = "alloc_scan" /\ ~Crashed
  /\ buffer_pool = <<>> \/ th[t].surface # NULL
  /\ pool_lock' = NoThread
  /\ th' = InCall(t, [th[t] EXCEPT !.pc = "alloc_create"],
                  [pool1 |-> buffer_pool])
  /\ UNCHANGED << device, display, lifecycle, state, setup, sinkcfg, out_size,
                  geometry, buffer_pool, surfaces, created >>

\* Lines 2435-2457, run without the pool lock: create a buffer when the pool
\* gave none, attach the caps, return it.  gst_dfbvideosink_surface_create
\* reads dfb here.  The record of the call keeps what CreateSurface and Lock
\* answered when a buffer was created.
BufferAllocCreate(t, create_ok, pad) ==
  /\ th[t].pc = "alloc_create" /\ ~Crashed
  /\ LET l == th[t]
         hit == l.surface # NULL
         b == IF hit THEN l.surface ELSE created + 1
         new == surface_create(GivenCaps(l), l.size, dfb, create_ok, pad)
     IN /\ hit \/ created < MaxBuffers
        /\ surfaces' = [surfaces EXCEPT
                          ![b] = IF hit
                                 THEN [surfaces[b] EXCEPT !.st = "borrowed"]
                                 ELSE new]
        /\ created' = IF hit THEN created ELSE created + 1
        /\ th' = Returned(t, [pc |-> "alloc_done", buf |-> b, hit |-> hit,
                              have_dfb |-> dfb,
                              create_ok |-> hit \/ create_ok,
                              pad |-> IF hit THEN 0 ELSE pad] @@ l)
  /\ UNCHANGED << device, display, lifecycle, state, setup, sinkcfg, out_size,
                  geometry, buffer_pool, pool_lock >>

\* ------------------------------------------------------- buffer release

\* The test of gst_dfbsurface_finalize, lines 2476-2478: the geometry
\* changed, the image cannot be reused.
FinalizeMismatch(surface) ==
  \/ surface.width # video_width
  \/ surface.height # video_height
  \/ surface.pixel_format # pixel_format

\* gst_dfbsurface_finalize up to the lock: the last reference of a borrowed
\* buffer was dropped, by a thread that need not hold a reference on the
\* sink.  A mismatching buffer is destroyed, a matching one is revived and
\* goes on to the pool.  When gst_dfbvideosink_surface_destroy drops the
\* last reference on the sink (gst_object_unref, line 333), the sink's
\* finalize runs inside that call, in the same thread, and the buffer is
\* freed (line 336) when it has returned: the thread's record keeps the
\* release it is in (nested).
SurfaceFinalize(t, b) ==
  /\ th[t].pc \in DonePcs /\ ~Crashed
  /\ surfaces[b].st = "borrowed"
  /\ LET r == [buf |-> b, tag |-> TagOf(surfaces[b]),
               geom0 |-> << video_width, video_height, pixel_format >>]
         last_ref == /\ ~owned /\ surfaces[b].sink /\ ~finalized
                     /\ SinkHolders(surfaces) = {b}
     IN IF FinalizeMismatch(surfaces[b])
        THEN IF last_ref
             THEN /\ surfaces' = surface_release(surfaces, b)
                  /\ th' = [th EXCEPT ![t] =
                              [pc |-> "sink_finalize",
                               nested |-> << r @@ [pool0 |-> buffer_pool] >>]]
             ELSE /\ surfaces' = surface_destroy(surfaces, b)
                  /\ th' = Returned(t, r @@ [pc |-> "fin_done",
                                             recycle |-> FALSE,
                                             pool0 |-> buffer_pool])
        ELSE /\ surfaces' = [surfaces EXCEPT ![b].st = "finalizing"]
             /\ th' = [th EXCEPT ![t] = r @@ [pc |-> "fin_lock"]]
  /\ UNCHANGED << device, display, lifecycle, state, setup, sinkcfg, out_size,
                  geometry, buffer_pool, pool_lock, created >>

\* Variants of g_slist_prepend: the entry goes to the tail; the entry is
\* linked twice.
slist_append(list, b) == list \o <<b>>
slist_prepend_twice(list, b) == <<b, b>> \o list

\* g_slist_prepend
slist_prepend(list, b) == <<b>> \o list

\* Lines 2488-2491: lock, prepend to the pool, unlock.
SurfaceRecycle(t) ==
  /\ th[t].pc = "fin_lock" /\ ~Crashed
  /\ pool_lock = NoThread
  /\ buffer_pool' = slist_prepend(buffer_pool, th[t].buf)
  /\ surfaces' = [surfaces EXCEPT ![th[t].buf].st = "pooled"]
  /\ th' = Returned(t, [th[t] EXCEPT !.pc = "fin_done"]
                         @@ [recycle |-> TRUE, pool0 |-> buffer_pool])
  /\ UNCHANGED << device, display, lifecycle, state, setup, sinkcfg, out_size,
                  geometry, pool_lock, created >>

\* gst_dfbvideosink_surface_destroy, line 336, after the sink's finalize
\* that ran inside gst_object_unref (line 333) has returned: the buffer is
\* freed and the release returns.
SurfaceDestroyFree(t) ==
  /\ th[t].pc = "destroy_free" /\ ~Crashed
  /\ LET r == th[t].nested[1]
     IN /\ surfaces' = surface_destroy(surfaces, r.buf)
        /\ th' = Returned(t, r @@ [pc |-> "fin_done", recycle |-> FALSE])
  /\ UNCHANGED << device, display, lifecycle, state, setup, sinkcfg, out_size,
                  geometry, buffer_pool, pool_lock, created >>

\* -------------------------------------------------------------- show_frame

\* gst_dfbvideosink_show_frame (build without HAVE_SHVIO), in the steps
\* between which it waits or calls DirectFB.  b: a buffer the sink handed
\* out, or NULL for a buffer it did not allocate.  A buffer with a native
\* surface is unlocked and blitted, any other is copied line by line.  No
\* lock is held: the fields of the sink are read when the step that uses
\* them runs.

\* Lines 2058-2135 (copy) and 2058-2246 (blit): setup is tested; the copy
\* path takes the application's surface or else the primary and calls
\* GetSubSurface on it (sub_ok: it returns DFB_OK), the blit path unlocks the
\* buffer's surface.
ShowFrameEnter(t, b, sub_ok) ==
  /\ Ready(t)
  /\ b # NULL => surfaces[b].st = "borrowed"
  /\ LET mem_cpy == ~(b # NULL /\ surfaces[b].surface)
         done(ret) == Returned(t, [pc |-> "show_done", buf |-> b,
                                   ret |-> ret, was_setup |-> setup,
                                   mem_cpy |-> mem_cpy, rendered |-> FALSE,
                                   posts |-> FALSE, state0 |-> state,
                                   shown0 |-> shown])
         goes_on == InCall(t, [pc |-> "show_sync", buf |-> b,
                               mem_cpy |-> mem_cpy],
                           [was_setup |-> TRUE])
     IN IF ~setup
        THEN th' = done("UNEXPECTED") /\ UNCHANGED surfaces
        ELSE IF mem_cpy
        THEN /\ th' = IF ~ext_surface /\ ~primary
                      THEN [th EXCEPT ![t] = [pc |-> "crashed"]]
                      ELSE IF ~sub_ok THEN done("UNEXPECTED")
                      ELSE goes_on
             /\ UNCHANGED surfaces
        ELSE /\ surfaces' = [surfaces EXCEPT ![b].locked = FALSE]
             /\ th' = goes_on
  /\ UNCHANGED << device, display, lifecycle, state, setup, sinkcfg, out_size,
                  geometry, buffer_pool, pool_lock, created >>

\* Lines 2138-2140 (copy) and 2249-2251 (blit): without back buffer and with
\* vsync, WaitForSync is called on the layer and the thread waits in it.
ShowFrameSync(t) ==
  /\ th[t].pc = "show_sync" /\ ~Crashed
  /\ th' = IF ~backbuffer /\ vsync /\ ~layer
           THEN [th EXCEPT ![t] = [pc |-> "crashed"]]
           ELSE [th EXCEPT ![t].pc = "show_render"]
  /\ UNCHANGED << device, display, lifecycle, state, setup, sinkcfg, out_size,
                  geometry, buffer_pool, pool_lock, surfaces, created >>

\* Lines 2142-2226 (copy): the sub-surface is locked (lock_ok: Lock returns
\* DFB_OK), the lines are copied, the surface is flipped if it has a back
\* buffer.  Lines 2253-2273 (blit): StretchBlit or Blit is called on the
\* primary, which is flipped if it has a back buffer.  The frame is on the
\* screen.
ShowFrameRender(t, lock_ok) ==
  /\ th[t].pc = "show_render" /\ ~Crashed
  /\ LET l == th[t]
         crash == ~l.mem_cpy /\ ~primary
         fails == l.mem_cpy /\ ~lock_ok
     IN /\ th' = IF crash THEN [th EXCEPT ![t] = [pc |-> "crashed"]]
                 ELSE IF fails
                 THEN Returned(t, [pc |-> "show_done", ret |-> "ERROR",
                                   rendered |-> FALSE, posts |-> FALSE,
                                   state0 |-> state, shown0 |-> shown] @@ l)
                 ELSE InCall(t, [l EXCEPT !.pc = "show_test"],
                             [state0 |-> state, shown0 |-> shown,
                              setup0 |-> setup])
        /\ shown' = IF ~crash /\ ~fails THEN 1 ELSE shown
  /\ UNCHANGED << device, window, frame_rendered, posted, lifecycle, state,
                  setup, sinkcfg, out_size, geometry, buffer_pool, pool_lock,
                  surfaces, created >>

\* Line 2276: frame_rendered is read; when it is not set GST_FLOW_OK is
\* returned (lines 2284-2285).
ShowFrameTest(t) ==
  /\ th[t].pc = "show_test" /\ ~Crashed
  /\ th' = IF frame_rendered
           THEN [th EXCEPT ![t].pc = "show_post"]
           ELSE Returned(t, [pc |-> "show_done", ret |-> "OK",
                             rendered |-> TRUE, posts |-> FALSE] @@ th[t])
  /\ UNCHANGED << device, display, lifecycle, state, setup, sinkcfg, out_size,
                  geometry, buffer_pool, pool_lock, surfaces, created >>

\* Lines 2277-2280: the FrameRendered message is posted on the bus; no lock
\* is held while the application receives it.
ShowFramePost(t) ==
  /\ th[t].pc = "show_post" /\ ~Crashed
  /\ posted' = IF posted < 2 THEN posted + 1 ELSE posted
  /\ th' = [th EXCEPT ![t].pc = "show_clear"]
  /\ UNCHANGED << device, window, frame_rendered, shown, lifecycle, state,
                  setup, sinkcfg, out_size, geometry, buffer_pool, pool_lock,
                  surfaces, created >>

\* Lines 2281-2285: after the post the flag is cleared, whatever it holds
\* by then, and GST_FLOW_OK is returned.
ShowFrameClear(t) ==
  /\ th[t].pc = "show_clear" /\ ~Crashed
  /\ frame_rendered' = FALSE
  /\ th' = Returned(t, [pc |-> "show_done", ret |-> "OK",
                        rendered |-> TRUE, posts |-> TRUE] @@ th[t])
  /\ UNCHANGED << device, window, posted, shown, lifecycle, state, setup,
                  sinkcfg, out_size, geometry, buffer_pool, pool_lock,
                  surfaces, created >>

\* The copy path of gst_dfbvideosink_show_frame, lines 2108-2126 and
\* 2150-2212: the rectangle the frame goes to, the source pitch, the number
\* of lines the loop copies and the bytes memcpy reads per line.  src: the
\* frame size of the buffer's caps; size: GST_BUFFER_SIZE; win: the sink's
\* window; dest_pitch: the pitch Lock reports for the sub-surface; shvio:
\* the build has HAVE_SHVIO, where the loop runs after a hardware blit that
\* failed between equal formats, on a frame that is not interlaced.
show_frame_copy(src, size, win, dest_pitch, shvio, keep_aspect_ratio) ==
  LET fit == video_sink_center_rect(src, win, FALSE)
      result == IF shvio
                THEN center_rect(src, win, TRUE, keep_aspect_ratio)
                ELSE [fit EXCEPT !.x = fit.x + win.x, !.y = fit.y + win.y]
      src_pitch == TruncDiv(size, src.h)
  IN [result |-> result, src_pitch |-> src_pitch,
      lines |-> IF result.h > 0 THEN result.h ELSE 0,
      line_bytes |-> IF src_pitch < dest_pitch THEN src_pitch
                     ELSE dest_pitch]

\* ------------------------------------------------------------- pool clear

\* gst_dfbvideosink_bufferpool_clear is called from two places: line 1861
\* (PAUSED_TO_READY) and line 987 (gst_dfbvideosink_cleanup, which
\* READY_TO_NULL and the sink's finalize call).  The thread's record keeps
\* the caller in `from`.

\* A variant of the entry of gst_dfbvideosink_bufferpool_clear: the loop is
\* entered without the pool lock.
BufferpoolClearNoLock(t) ==
  /\ th[t].pc \in {"p2r_clear", "cleanup_clear"} /\ ~Crashed
  /\ th' = InCall(t, [pc |-> "clear_loop", from |-> th[t].from,
                      cleared |-> <<>>, nested |-> Nested(t)],
                  [pool0 |-> buffer_pool])
  /\ UNCHANGED << device, display, lifecycle, state, setup, sinkcfg, out_size,
                  geometry, buffer_pool, pool_lock, surfaces, created >>

\* g_mutex_lock (pool_lock) at line 2291.  The record of the call keeps the
\* pool as the clear finds it (pool0) and the entries it destroys (cleared).
BufferpoolClearLock(t) ==
  /\ th[t].pc \in {"p2r_clear", "cleanup_clear"} /\ ~Crashed
  /\ pool_lock = NoThread
  /\ pool_lock' = t
  /\ th' = InCall(t, [pc |-> "clear_loop", from |-> th[t].from,
                      cleared |-> <<>>, nested |-> Nested(t)],
                  [pool0 |-> buffer_pool])
  /\ UNCHANGED << device, display, lifecycle, state, setup, sinkcfg, out_size,
                  geometry, buffer_pool, surfaces, created >>

\* One iteration of the loop, lines 2292-2298: the head of the pool is
\* unlinked and destroyed, whatever its tag.
BufferpoolClearStep(t) ==
  /\ th[t].pc = "clear_loop" /\ ~Crashed
  /\ buffer_pool # <<>>
  /\ buffer_pool' = Tail(buffer_pool)
  /\ surfaces' = surface_destroy(surfaces, Head(buffer_pool))
  /\ th' = IF t = MainThread
           THEN [th EXCEPT ![t].cleared = Append(@, Head(buffer_pool))]
           ELSE th
  /\ UNCHANGED << device, display, lifecycle, state, setup, sinkcfg, out_size,
                  geometry, pool_lock, created >>

\* The loop ends on an empty pool; g_mutex_unlock at line 2299 and the
\* return to the caller: change_state goes on to READY and returns,
\* gst_dfbvideosink_cleanup goes on with the primary surface.
BufferpoolClearUnlock(t) ==
  /\ th[t].pc = "clear_loop" /\ ~Crashed
  /\ buffer_pool = <<>>
  /\ pool_lock' = NoThread
  /\ IF th[t].from = "P2R"
     THEN /\ state' = "READY"
          /\ th' = Returned(t, [th[t] EXCEPT !.pc = "state_done"]
                                 @@ [transition |-> "P2R"])
     ELSE /\ th' = [th EXCEPT ![t].pc = "cleanup_primary"]
          /\ UNCHANGED state
  /\ UNCHANGED << device, display, lifecycle, setup, sinkcfg, out_size,
                  geometry, buffer_pool, surfaces, created >>

\* ---------------------------------------------------------------- setcaps

\* The size of the layer configuration GetConfiguration reports after
\* SetVideoMode: the best video mode, or the primary's size.
LayerConfigSize(w, h) ==
  LET best == get_best_vmode(vmodes, w, h)
  IN IF best.ret THEN [w |-> best.vmode.width, h |-> best.vmode.height]
     ELSE PrimarySize

\* gst_dfbvideosink_setcaps (build without HAVE_SHVIO, no pixel-aspect-ratio
\* property set): the sink fields it writes.  config_ok:
\* layer->SetConfiguration returned DFB_OK, which it does not for
\* DSPF_UNKNOWN.  The block of line 1735 tests dfb only: with dfb set and
\* layer NULL, line 1767 calls through the NULL pointer, after the frame
\* rate was stored.
SetCapsFields(t, caps, config_ok) ==
  /\ Ready(t)
  /\ LET res == HasGeometry(caps) /\ HasField(caps, "framerate")
         format == get_format_from_caps(caps)
         null_deref == res /\ dfb /\ ~layer
         configured == dfb /\ config_ok /\ format # "UNKNOWN"
         sink_format == IF configured THEN format ELSE pixel_format
         result == res /\ format = sink_format
     IN IF ~res
        THEN /\ UNCHANGED << geometry, out_size >>
             /\ th' = Returned(t, [pc |-> "setcaps_done", caps |-> caps,
                                   result |-> FALSE, pool0 |-> buffer_pool,
                                   geom0 |-> << video_width, video_height,
                                                pixel_format >>])
        ELSE IF null_deref
        THEN /\ fps' = caps.framerate
             /\ UNCHANGED << video_width, video_height, pixel_format,
                             out_size >>
             /\ th' = [th EXCEPT ![t] = [pc |-> "crashed"]]
        ELSE /\ fps' = caps.framerate
             /\ pixel_format' = sink_format
             /\ out_size' = IF configured
                            THEN LayerConfigSize(caps.width, caps.height)
                            ELSE out_size
             /\ video_width' = IF result THEN caps.width ELSE video_width
             /\ video_height' = IF result THEN caps.height ELSE video_height
             /\ th' = Returned(t, [pc |-> "setcaps_done", caps |-> caps,
                                   result |-> result, pool0 |-> buffer_pool,
                                   geom0 |-> << video_width, video_height,
                                                pixel_format >>])
  /\ UNCHANGED << device, display, lifecycle, state, setup, sinkcfg, pool_lock,
                  created >>

\* gst_dfbvideosink_setcaps: no statement of it touches the pool or a
\* buffer.
SetCaps(t, caps, config_ok) ==
  /\ SetCapsFields(t, caps, config_ok)
  /\ UNCHANGED << device, buffer_pool, surfaces >>

\* ----------------------------------------------------------- change_state

\* The state lock of GstElement: one state change at a time.
Changing ==
  \E u \in Callers :
    th[u].pc \in {"p2r_clear", "clear_loop", "p2pl_parent", "pl2p_flag",
                   "cleanup_join", "cleanup_clear", "cleanup_primary",
                   "cleanup_layer", "cleanup_dfb", "cleanup_setup"}

Max(a, b) == IF a > b THEN a ELSE b

\* The out_width, out_height gst_dfbvideosink_enum_vmodes leaves after the
\* modes were appended.
RECURSIVE EnumVModesOut(_, _)
EnumVModesOut(out, modes) ==
  IF modes = <<>> THEN out
  ELSE EnumVModesOut([w |-> Max(out.w, Head(modes).width),
                      h |-> Max(out.h, Head(modes).height)], Tail(modes))

\* A variant of the sanity check: the window is taken as it is.
window_unchecked(win, size) == win

\* The sanity check of the target window at the end of
\* gst_dfbvideosink_setup, lines 887-900, for a target surface of `size`.
\* The modulo is skipped when the offset is below the side, so a side of 0
\* divides nothing unless the test lets it.
SanitizeWindow(win, size) ==
  [w |-> IF win.w = 0 THEN size.w ELSE win.w,
   h |-> IF win.h = 0 THEN size.h ELSE win.h,
   x |-> IF win.x >= size.w THEN win.x % size.w ELSE win.x,
   y |-> IF win.y >= size.h THEN win.y % size.h ELSE win.y]

\* The places where gst_dfbvideosink_setup gives up (goto beach), in the
\* order of the code: DirectFBInit or DirectFBCreate fails ("init"),
\* GetDeviceDescription fails ("desc"), GetDisplayLayer fails ("layer"),
\* SetCooperativeLevel fails ("coop"); "none": every call succeeds.
SetupFailures == {"none", "init", "desc", "layer", "coop"}

\* GST_STATE_CHANGE_NULL_TO_READY with gst_dfbvideosink_setup.  fail: the
\* call of setup that fails, one this run of setup reaches; hw: StretchBlit
\* is accelerated; modes: what EnumVideoModes lists; back: the display
\* layer (gst_dfbvideosink_enum_layers) or the application's surface
\* (DSCAPS_FLIPPING) has a back buffer.
\* A setup that finds the DirectFB context of a failed one skips lines
\* 664-735, one that finds its layer skips lines 736-860; after a failure
\* at SetCooperativeLevel the layer is set and primary is NULL, and line
\* 862 calls through the NULL pointer.
NullToReady(t, fail, hw, modes, back) ==
  /\ Ready(t) /\ ~Changing
  /\ state = "NULL"
  /\ ~setup
  /\ fail \in SetupFailures
  /\ fail \in {"init", "desc"} => (~ext_surface /\ ~dfb)
  /\ fail \in {"layer", "coop"} => (~ext_surface /\ ~layer)
  /\ running' = TRUE
  /\ video_width' = 0
  /\ video_height' = 0
  /\ fps' = <<0, 0>>
  /\ IF ext_surface THEN
       /\ pixel_format' = DevicePixelFormat
       /\ out_size' = ExtSurfaceSize
       /\ hw_scaling' = FALSE
       /\ backbuffer' = back
       /\ window' = SanitizeWindow(window, ExtSurfaceSize)
       /\ setup' = TRUE
       /\ state' = "READY"
       /\ th' = Returned(t, [pc |-> "state_done", transition |-> "N2R",
                                cleared |-> <<>>, window0 |-> window])
       /\ UNCHANGED << dfb, vmodes, event_thread, ev, layer, primary >>
     ELSE
       LET created_dfb == ~dfb /\ fail # "init"
           inspected == ~dfb /\ fail \notin {"init", "desc"}
           got_layer == ~layer /\ (dfb \/ inspected) /\ fail # "layer"
           got_primary == got_layer /\ fail # "coop"
           deref_null == layer /\ ~primary
           done == (dfb \/ inspected) /\ (layer \/ got_primary)
                     /\ ~deref_null
       IN /\ dfb' = (dfb \/ created_dfb)
          /\ hw_scaling' = (inspected /\ hw)
          /\ backbuffer' = (inspected /\ back)
          /\ vmodes' = IF inspected THEN vmodes \o modes ELSE vmodes
          /\ out_size' = IF inspected
                         THEN EnumVModesOut([w |-> 0, h |-> 0], modes)
                         ELSE [w |-> 0, h |-> 0]
          /\ event_thread' = (event_thread \/ inspected)
          /\ ev' = IF inspected THEN "loop" ELSE ev
          /\ layer' = (layer \/ got_layer)
          /\ primary' = (primary \/ got_primary)
          /\ pixel_format' = IF done THEN DevicePixelFormat ELSE "UNKNOWN"
          /\ window' = IF done THEN SanitizeWindow(window, PrimarySize)
                       ELSE window
          /\ setup' = done
          /\ state' = IF done THEN "READY" ELSE state
          /\ th' = IF deref_null
                   THEN [th EXCEPT ![t] = [pc |-> "crashed"]]
                   ELSE Returned(t, [pc |-> "state_done",
                                     transition |-> "N2R", cleared |-> <<>>,
                                     window0 |-> window])
  /\ UNCHANGED << ext_surface, keep_ar, buffer_pool, pool_lock, surfaces,
                  created, frame_rendered, posted, shown, owned, finalized,
                  vsync >>

\* GST_STATE_CHANGE_READY_TO_PAUSED: no pool or geometry field is written.
ReadyToPaused(t) ==
  /\ Ready(t) /\ ~Changing
  /\ state = "READY"
  /\ state' = "PAUSED"
  /\ th' = Returned(t, [pc |-> "state_done", transition |-> "R2P",
                           cleared |-> <<>>])
  /\ UNCHANGED << device, display, lifecycle, setup, sinkcfg, out_size,
                  geometry, buffer_pool, pool_lock, surfaces, created >>

\* GST_STATE_CHANGE_PAUSED_TO_PLAYING, lines 1839-1841: frame_rendered is
\* set before the parent class is asked to change the state.
PausedToPlaying(t) ==
  /\ Ready(t) /\ ~Changing
  /\ state = "PAUSED"
  /\ frame_rendered' = TRUE
  /\ th' = [th EXCEPT ![t] = [pc |-> "p2pl_parent"]]
  /\ UNCHANGED << device, window, posted, shown, lifecycle, state, setup,
                  sinkcfg, out_size, geometry, buffer_pool, pool_lock,
                  surfaces, created >>

\* PAUSED_TO_PLAYING, lines 1845-1848: the parent class changes the state
\* (ok), or fails, and then change_state returns with the element still in
\* PAUSED.  posted and shown count from the change to PLAYING.
PausedToPlayingParent(t, ok) ==
  /\ th[t].pc = "p2pl_parent" /\ ~Crashed
  /\ IF ok
     THEN state' = "PLAYING" /\ posted' = 0 /\ shown' = 0
     ELSE UNCHANGED << state, posted, shown >>
  /\ th' = Returned(t, [pc |-> "state_done", transition |-> "P2PL",
                        cleared |-> <<>>, changed |-> ok])
  /\ UNCHANGED << device, window, frame_rendered, lifecycle, setup, sinkcfg,
                  out_size, geometry, buffer_pool, pool_lock, surfaces,
                  created >>

\* GST_STATE_CHANGE_PLAYING_TO_PAUSED, lines 1845-1848: nothing is written
\* before the parent class changes the state (ok), or fails.
PlayingToPaused(t, ok) ==
  /\ Ready(t) /\ ~Changing
  /\ state = "PLAYING"
  /\ IF ok
     THEN /\ state' = "PAUSED"
          /\ th' = [th EXCEPT ![t] = [pc |-> "pl2p_flag"]]
     ELSE /\ UNCHANGED state
          /\ th' = Returned(t, [pc |-> "state_done", transition |-> "PL2P",
                                cleared |-> <<>>, changed |-> FALSE])
  /\ UNCHANGED << device, display, lifecycle, setup, sinkcfg, out_size,
                  geometry, buffer_pool, pool_lock, surfaces, created >>

\* PLAYING_TO_PAUSED, lines 1851-1853: frame_rendered is cleared after the
\* parent class changed the state.
PlayingToPausedFlag(t) ==
  /\ th[t].pc = "pl2p_flag" /\ ~Crashed
  /\ frame_rendered' = FALSE
  /\ th' = Returned(t, [pc |-> "state_done", transition |-> "PL2P",
                        cleared |-> <<>>, changed |-> TRUE])
  /\ UNCHANGED << device, window, posted, shown, lifecycle, state, setup,
                  sinkcfg, out_size, geometry, buffer_pool, pool_lock,
                  surfaces, created >>

\* GST_STATE_CHANGE_PAUSED_TO_READY, lines 1854-1862: the negotiated state is
\* reset; when the unlocked test of line 1860 finds the pool non-empty,
\* gst_dfbvideosink_bufferpool_clear is called (line 1861).
PausedToReady(t) ==
  /\ Ready(t) /\ ~Changing
  /\ state = "PAUSED"
  /\ fps' = <<0, 0>>
  /\ video_width' = 0
  /\ video_height' = 0
  /\ IF buffer_pool # <<>>
     THEN /\ th' = [th EXCEPT ![t] = [pc |-> "p2r_clear", from |-> "P2R"]]
          /\ UNCHANGED state
     ELSE /\ th' = Returned(t, [pc |-> "state_done", transition |-> "P2R",
                           cleared |-> <<>>])
          /\ state' = "READY"
  /\ UNCHANGED << device, display, lifecycle, setup, sinkcfg, out_size,
                  pixel_format, buffer_pool, pool_lock, surfaces, created >>

\* gst_dfbvideosink_cleanup from the release of the event buffer (line 957)
\* to its unlocked test of the pool (line 986): the list of modes is freed.
\* from: "R2N" when change_state called cleanup, "finalize" when
\* gst_dfbvideosink_finalize did.
CleanupToPoolTest(t, from) ==
  /\ vmodes' = <<>>
  /\ th' = [th EXCEPT ![t] =
              [pc |-> IF buffer_pool # <<>> THEN "cleanup_clear"
                      ELSE "cleanup_primary",
               from |-> from, cleared |-> <<>>, nested |-> Nested(t)]]
  /\ UNCHANGED << state, setup, dfb, layer, primary, finalized >>

\* gst_dfbvideosink_cleanup, entered: with an event thread it waits in
\* g_thread_join (line 953), without one it goes on.
CleanupEnter(t, from) ==
  IF event_thread
  THEN /\ th' = [th EXCEPT ![t] = [pc |-> "cleanup_join", from |-> from,
                                    nested |-> Nested(t)]]
       /\ UNCHANGED << state, setup, dfb, layer, primary, vmodes,
                       finalized >>
  ELSE CleanupToPoolTest(t, from)

\* GST_STATE_CHANGE_READY_TO_NULL, lines 1864-1869: running is cleared and
\* gst_dfbvideosink_cleanup is called.
ReadyToNull(t) ==
  /\ Ready(t) /\ ~Changing
  /\ state = "READY"
  /\ setup
  /\ running' = FALSE
  /\ CleanupEnter(t, "R2N")
  /\ UNCHANGED << backbuffer, vsync, display, event_thread, ev, owned, ext_surface,
                  hw_scaling, keep_ar, out_size, geometry, buffer_pool,
                  pool_lock, surfaces, created >>

\* g_thread_join returns (lines 953-954): the event thread has left its
\* loop.  cleanup goes on to its test of the pool.
CleanupJoin(t) ==
  /\ th[t].pc = "cleanup_join" /\ ~Crashed
  /\ ev = "exited"
  /\ event_thread' = FALSE
  /\ ev' = "none"
  /\ CleanupToPoolTest(t, th[t].from)
  /\ UNCHANGED << backbuffer, vsync, display, running, owned, ext_surface, hw_scaling,
                  keep_ar, out_size, geometry, buffer_pool, pool_lock,
                  surfaces, created >>

\* gst_dfbvideosink_cleanup, lines 990-993, no lock held: primary is released
\* and set to NULL.
CleanupPrimary(t) ==
  /\ th[t].pc = "cleanup_primary" /\ ~Crashed
  /\ primary' = FALSE
  /\ th' = [th EXCEPT ![t].pc = "cleanup_layer"]
  /\ UNCHANGED << layer, backbuffer, vsync, display, lifecycle, state, setup,
                  sinkcfg, out_size, geometry, buffer_pool, pool_lock,
                  surfaces, created >>

\* gst_dfbvideosink_cleanup, lines 995-999, no lock held: layer is released
\* and set to NULL.
CleanupLayer(t) ==
  /\ th[t].pc = "cleanup_layer" /\ ~Crashed
  /\ layer' = FALSE
  /\ th' = [th EXCEPT ![t].pc = "cleanup_dfb"]
  /\ UNCHANGED << primary, backbuffer, vsync, display, lifecycle, state,
                  setup, sinkcfg, out_size, geometry, buffer_pool, pool_lock,
                  surfaces, created >>

\* gst_dfbvideosink_cleanup, lines 1001-1004, no lock held: the DirectFB
\* context is released and set to NULL.
CleanupDfb(t) ==
  /\ th[t].pc = "cleanup_dfb" /\ ~Crashed
  /\ dfb' = FALSE
  /\ th' = [th EXCEPT ![t].pc = "cleanup_setup"]
  /\ UNCHANGED << device, display, lifecycle, state, setup, ext_surface,
                  hw_scaling, keep_ar, vmodes, out_size, geometry,
                  buffer_pool, pool_lock, surfaces, created >>

\* gst_dfbvideosink_cleanup, line 1027, and the return to its caller: setup
\* is cleared; change_state goes on to NULL; finalize is done and, when it
\* ran inside the release of a buffer, returns to it.
CleanupDone(t) ==
  /\ th[t].pc = "cleanup_setup" /\ ~Crashed
  /\ setup' = FALSE
  /\ IF th[t].from = "R2N"
     THEN state' = "NULL" /\ UNCHANGED finalized
     ELSE finalized' = TRUE /\ UNCHANGED state
  /\ th' = IF Nested(t) # <<>>
           THEN [th EXCEPT ![t] = [pc |-> "destroy_free",
                                   nested |-> Nested(t)]]
           ELSE Returned(t, [pc |-> "state_done", transition |-> th[t].from,
                             cleared |-> th[t].cleared])
  /\ UNCHANGED << device, display, running, event_thread, ev, owned, sinkcfg,
                  out_size, geometry, buffer_pool, pool_lock, surfaces,
                  created >>

\* gst_dfbvideosink_event_thread, line 345: the loop tests running after
\* each wait of at most 50 ms and is left when it reads FALSE.  An iteration
\* that reads TRUE changes nothing of the sink.
EventThreadExit ==
  /\ ev = "loop" /\ ~Crashed
  /\ ~running
  /\ ev' = "exited"
  /\ UNCHANGED << device, state, setup, sinkcfg, out_size, geometry,
                  buffer_pool, pool_lock, surfaces, created, display, running,
                  event_thread, owned, finalized, th >>

\* The application drops its reference on the sink (gst_object_unref),
\* while no thread is inside a handler of the element.  If no buffer holds
\* a reference, it was the last one and gst_dfbvideosink_finalize runs.
SinkUnref(t) ==
  /\ Ready(t) /\ ~Changing
  /\ \A u \in Callers : th[u].pc \in DonePcs \cup {"fin_lock"}
  /\ owned' = FALSE
  /\ th' = IF SinkHolders(surfaces) = {}
           THEN [th EXCEPT ![t] = [pc |-> "sink_finalize", nested |-> <<>>]]
           ELSE Returned(t, [pc |-> "unref_done"])
  /\ UNCHANGED << device, display, running, event_thread, ev, finalized, state,
                  setup, sinkcfg, out_size, geometry, buffer_pool, pool_lock,
                  surfaces, created >>

\* gst_dfbvideosink_finalize, lines 2892-2912: the pool mutex is freed, and
\* gst_dfbvideosink_cleanup is called if the sink is still set up; running
\* is not written.  A finalize that ran inside the release of a buffer
\* returns to it.
SinkFinalize(t) ==
  /\ th[t].pc = "sink_finalize" /\ ~Crashed
  /\ pool_lock' = Freed
  /\ IF setup
     THEN CleanupEnter(t, "finalize")
     ELSE /\ finalized' = TRUE
          /\ th' = IF Nested(t) # <<>>
                   THEN [th EXCEPT ![t].pc = "destroy_free"]
                   ELSE Returned(t, [pc |-> "finalize_done"])
          /\ UNCHANGED << state, setup, dfb, layer, primary, vmodes >>
  /\ UNCHANGED << backbuffer, vsync, display, running, event_thread, ev, owned,
                  ext_surface, hw_scaling, keep_ar, out_size, geometry,
                  buffer_pool, surfaces, created >>

\* gst_dfbvideosink_set_property, ARG_SURFACE (lines 2746-2748): the
\* pointer, NULL or a surface of the application, is stored in any state of
\* the element.
SetSurface(t, surface) ==
  /\ Ready(t) /\ ~Changing
  /\ ext_surface # surface
  /\ ext_surface' = surface
  /\ th' = Returned(t, [pc |-> "idle"])
  /\ UNCHANGED << device, display, lifecycle, state, setup, dfb, hw_scaling,
                  keep_ar, vmodes, out_size, geometry, buffer_pool, pool_lock,
                  surfaces, created >>

\* gst_dfbvideosink_set_property, ARG_KEEP_ASPECT_RATIO (lines 2785-2787).
SetKeepAspectRatio(t, value) ==
  /\ Ready(t) /\ ~Changing
  /\ keep_ar # value
  /\ keep_ar' = value
  /\ th' = Returned(t, [pc |-> "idle"])
  /\ UNCHANGED << device, display, lifecycle, state, setup, dfb, ext_surface,
                  hw_scaling, vmodes, out_size, geometry, buffer_pool,
                  pool_lock, surfaces, created >>

\* gst_dfbvideosink_set_property, ARG_VSYNC (lines 2782-2784).
SetVSync(t, value) ==
  /\ Ready(t) /\ ~Changing
  /\ vsync # value
  /\ vsync' = value
  /\ th' = Returned(t, [pc |-> "idle"])
  /\ UNCHANGED << layer, primary, backbuffer, display, lifecycle, state,
                  setup, sinkcfg, out_size, geometry, buffer_pool, pool_lock,
                  surfaces, created >>

\* gst_dfbvideosink_set_property, ARG_WINDOW_WIDTH, ARG_WINDOW_HEIGHT,
\* ARG_WINDOW_X_OFFSET, ARG_WINDOW_Y_OFFSET (lines 2788-2799): the value, an
\* int of 0..G_MAXINT by the property's GParamSpec, is stored as it comes.
SetWindow(t, prop, value) ==
  /\ Ready(t) /\ ~Changing
  /\ window' = [window EXCEPT ![prop] = value]
  /\ window' # window
  /\ th' = Returned(t, [pc |-> "idle"])
  /\ UNCHANGED << device, frame_rendered, posted, shown, lifecycle, state,
                  setup, sinkcfg, out_size, geometry, buffer_pool, pool_lock,
                  surfaces, created >>

\* ----------------------------------------------------------- specifications

\* Spec: one thread drives the sink through its states, negotiates and
\* allocates while the pads are active (PAUSED), and releases buffers at any
\* time.
Alloc(t) ==
  /\ state = "PAUSED"
  /\ \E caps \in AllocCaps, peer \in {"none", "accepts", "refuses"} :
       BufferAllocEnter(t, caps, RequestSize(caps), peer, 0, 0, MaxBuffers)

AllocCreate(t) == BufferAllocCreate(t, TRUE, 0)

Release(t) == \E b \in BufIds : SurfaceFinalize(t, b)

UseSurface(t) == \E surface \in BOOLEAN : SetSurface(t, surface)

ConfigureAspect(t) == \E value \in BOOLEAN : SetKeepAspectRatio(t, value)

Negotiate(t) ==
  /\ state = "PAUSED"
  /\ \E caps \in AllocCaps, config_ok \in BOOLEAN :
       SetCaps(t, caps, config_ok)

Open(t) ==
  \E fail \in {"none", "init"}, hw \in BOOLEAN :
    NullToReady(t, fail, hw, DeviceModes, FALSE)

Next ==
  \/ Alloc(MainThread)
  \/ BufferAllocLock(MainThread)
  \/ BufferAllocScan(MainThread)
  \/ BufferAllocUnlock(MainThread)
  \/ AllocCreate(MainThread)
  \/ Release(MainThread)
  \/ SurfaceRecycle(MainThread)
  \/ Negotiate(MainThread)
  \/ Open(MainThread)
  \/ ReadyToPaused(MainThread)
  \/ PausedToReady(MainThread)
  \/ BufferpoolClearLock(MainThread)
  \/ BufferpoolClearStep(MainThread)
  \/ BufferpoolClearUnlock(MainThread)

Spec == Init /\ [][Next]_vars

\* SpecCreate: one buffer is allocated on a sink set up with its own
\* DirectFB context or on an application surface, for every descriptor, byte
\* count and answer of DirectFB; it is released, pooled when the negotiated
\* geometry is its tag, and allocated again.
AllocNew(t) ==
  \E caps \in CreateCaps, peer \in {"none", "accepts", "refuses"},
     gw \in GarbageInts, gh \in GarbageInts :
    \E size \in CreateSizes(caps) :
      BufferAllocEnter(t, caps, size, peer, gw, gh, CreateBuffers)

AllocCreateNew(t) ==
  \E create_ok \in BOOLEAN, pad \in PitchPads :
    BufferAllocCreate(t, create_ok, pad)

NegotiateNew(t) == \E caps \in ConcCaps : SetCaps(t, caps, TRUE)

OpenDevice(t) ==
  \E hw \in BOOLEAN : NullToReady(t, "none", hw, DeviceModes, FALSE)

NextCreate ==
  \/ UseSurface(MainThread)
  \/ ConfigureAspect(MainThread)
  \/ OpenDevice(MainThread)
  \/ AllocNew(MainThread)
  \/ BufferAllocLock(MainThread)
  \/ BufferAllocScan(MainThread)
  \/ BufferAllocUnlock(MainThread)
  \/ AllocCreateNew(MainThread)
  \/ NegotiateNew(MainThread)
  \/ Release(MainThread)
  \/ SurfaceRecycle(MainThread)

SpecCreate == Init /\ [][NextCreate]_vars

\* SpecConc: two threads allocate, release, negotiate and change state in
\* every interleaving of their steps, on a device with hardware scaling.
AllocEnter(t) ==
  \E caps \in ConcCaps :
    BufferAllocEnter(t, caps, RequestSize(caps), "none", 0, 0, ConcBuffers)

NegotiateConc(t) == \E caps \in ConcCaps : SetCaps(t, caps, TRUE)

OpenConc(t) == NullToReady(t, "none", TRUE, DeviceModes, FALSE)

NextConc ==
  \/ \E t \in Threads :
       \/ AllocEnter(t)
       \/ BufferAllocLock(t)
       \/ BufferAllocScan(t)
       \/ BufferAllocUnlock(t)
       \/ AllocCreate(t)
       \/ Release(t)
       \/ SurfaceRecycle(t)
       \/ NegotiateConc(t)
       \/ OpenConc(t)
       \/ ReadyToPaused(t)
       \/ PausedToReady(t)
       \/ BufferpoolClearLock(t)
       \/ BufferpoolClearStep(t)
       \/ BufferpoolClearUnlock(t)
       \/ ReadyToNull(t)
       \/ CleanupJoin(t)
       \/ CleanupPrimary(t)
       \/ CleanupLayer(t)
       \/ CleanupDfb(t)
       \/ CleanupDone(t)
  \/ EventThreadExit

SpecConc == Init /\ [][NextConc]_vars

\* SpecDefault: the sink is set up on a device that lists no video mode, or
\* on an application surface, and buffers are allocated, negotiated and
\* released as in Spec.
OpenNoModes(t) ==
  \E fail \in SetupFailures, hw \in BOOLEAN :
    NullToReady(t, fail, hw, <<>>, FALSE)

AllocDefault(t) ==
  /\ state = "PAUSED"
  /\ \E caps \in AllocCaps, peer \in {"none", "accepts", "refuses"} :
       BufferAllocEnter(t, caps, RequestSize(caps), peer, 0, 0,
                        DefaultBuffers)

NextDefault ==
  \/ UseSurface(MainThread)
  \/ ConfigureAspect(MainThread)
  \/ OpenNoModes(MainThread)
  \/ ReadyToPaused(MainThread)
  \/ AllocDefault(MainThread)
  \/ BufferAllocLock(MainThread)
  \/ BufferAllocScan(MainThread)
  \/ BufferAllocUnlock(MainThread)
  \/ AllocCreate(MainThread)
  \/ Release(MainThread)
  \/ SurfaceRecycle(MainThread)
  \/ Negotiate(MainThread)

SpecDefault == Init /\ [][NextDefault]_vars

\* SpecWindow: the application sets the window properties and an output
\* surface, and takes the sink from NULL to READY and back, with a setup
\* that may fail.
WindowValues == {0, 1, 4, 5, 9}

ConfigureWindow(t) ==
  \E prop \in {"x", "y", "w", "h"}, value \in WindowValues :
    SetWindow(t, prop, value)

OpenWindow(t) ==
  \E fail \in SetupFailures :
    NullToReady(t, fail, FALSE, DeviceModes, FALSE)

NextWindow ==
  \/ ConfigureWindow(MainThread)
  \/ UseSurface(MainThread)
  \/ OpenWindow(MainThread)
  \/ ReadyToNull(MainThread)
  \/ CleanupJoin(MainThread)
  \/ CleanupPrimary(MainThread)
  \/ CleanupLayer(MainThread)
  \/ CleanupDfb(MainThread)
  \/ CleanupDone(MainThread)
  \/ EventThreadExit

SpecWindow == Init /\ [][NextWindow]_vars

\* SpecRender: the application thread takes the sink through NULL, READY,
\* PAUSED and PLAYING and back while the streaming thread negotiates,
\* allocates, shows and releases buffers, in every interleaving of their
\* steps.  buffer_alloc and show_frame test setup, not the element state,
\* and are called in any; frames are shown in PAUSED (preroll) and in
\* PLAYING.  The streaming thread is the one whose calls are recorded.
OpenRender(t) ==
  \E back \in BOOLEAN :
    /\ back => ext_surface
    /\ NullToReady(t, "none", TRUE, DeviceModes, back)

RenderCaps == CapsOf("RGB16", 4, 4)

AllocRender(t) ==
  BufferAllocEnter(t, RenderCaps, RequestSize(RenderCaps), "none", 0, 0,
                   RenderBuffers)

NegotiateRender(t) ==
  /\ state \in {"PAUSED", "PLAYING"}
  /\ SetCaps(t, RenderCaps, TRUE)

UseSurfaceRender(t) == state = "NULL" /\ UseSurface(t)

VSyncRender(t) ==
  state = "NULL" /\ \E value \in BOOLEAN : SetVSync(t, value)

Show(t) ==
  \E b \in BufIds \cup {NULL}, sub_ok \in BOOLEAN : ShowFrameEnter(t, b, sub_ok)

Render(t) == \E lock_ok \in BOOLEAN : ShowFrameRender(t, lock_ok)

Play(t) == \E ok \in BOOLEAN : PausedToPlayingParent(t, ok)

Pause(t) == \E ok \in BOOLEAN : PlayingToPaused(t, ok)

NextRender ==
  \/ UseSurfaceRender(Application)
  \/ VSyncRender(Application)
  \/ OpenRender(Application)
  \/ ReadyToPaused(Application)
  \/ PausedToPlaying(Application)
  \/ Play(Application)
  \/ Pause(Application)
  \/ PlayingToPausedFlag(Application)
  \/ PausedToReady(Application)
  \/ BufferpoolClearLock(Application)
  \/ BufferpoolClearStep(Application)
  \/ BufferpoolClearUnlock(Application)
  \/ ReadyToNull(Application)
  \/ CleanupJoin(Application)
  \/ CleanupPrimary(Application)
  \/ CleanupLayer(Application)
  \/ CleanupDfb(Application)
  \/ CleanupDone(Application)
  \/ EventThreadExit
  \/ NegotiateRender(MainThread)
  \/ AllocRender(MainThread)
  \/ BufferAllocLock(MainThread)
  \/ BufferAllocScan(MainThread)
  \/ BufferAllocUnlock(MainThread)
  \/ AllocCreate(MainThread)
  \/ Show(MainThread)
  \/ ShowFrameSync(MainThread)
  \/ Render(MainThread)
  \/ ShowFrameTest(MainThread)
  \/ ShowFramePost(MainThread)
  \/ ShowFrameClear(MainThread)
  \/ Release(MainThread)
  \/ SurfaceRecycle(MainThread)

SpecRender == Init /\ [][NextRender]_vars

\* ------------------------------------- the pixel-format translator applied

\* The pixel formats the translator knows, and two it does not.
SupportedFormats ==
  {"RGB16", "RGB24", "RGB32", "ARGB", "YUY2", "UYVY", "I420", "YV12", "NV12"}
TranslatedFormats == SupportedFormats \cup {"UNKNOWN", "A8"}

\* RGB descriptors with every combination of field values around the table
\* rows, with and without an alpha mask.
RGBDescriptors ==
  LET plain == [name : {"video/x-raw-rgb"}, bpp : {16, 24, 32},
                depth : {15, 16, 24, 32}, endianness : {G_BIG_ENDIAN, 1234},
                red_mask : {63488, 16711680}, green_mask : {2016, 65280},
                blue_mask : {31, 255}]
  IN plain \cup { [alpha_mask |-> a] @@ d : a \in {-16777216, 255},
                                             d \in plain }

\* The canonical descriptors with one field missing.
PartialDescriptors ==
  { [k \in (DOMAIN get_caps_from_format(f)) \ {omit} |->
       get_caps_from_format(f)[k]] :
      f \in {"RGB16", "RGB24", "RGB32", "ARGB"},
      omit \in {"bpp", "depth", "endianness", "red_mask", "green_mask",
                "blue_mask"} }

\* YUV descriptors (known and unknown four-character codes, none) and
\* descriptors of other media types.
YUVDescriptors ==
  [name : {"video/x-raw-yuv"},
   format : {"I420", "YV12", "YUY2", "UYVY", "NV12", "AYUV", "Y42B"}]
    \cup { [name |-> "video/x-raw-yuv"] }
OtherDescriptors ==
  { [get_caps_from_format("RGB16") EXCEPT !.name = "video/x-raw-gray"],
    [name |-> "video/x-raw-gray", format |-> "I420"],
    [name |-> "image/jpeg"] }

FormatDescriptors ==
  RGBDescriptors \cup PartialDescriptors \cup YUVDescriptors
    \cup OtherDescriptors

\* gst_dfbvideosink_get_caps_from_format returns NULL: for DSPF_UNKNOWN (the
\* guard of line 1129) and for a format outside its switch (line 1177).
CapsIsNull(format) == format \notin SupportedFormats

\* gst_dfbvideosink_get_format_from_caps on what
\* gst_dfbvideosink_get_caps_from_format returned for the format: NULL is
\* not a GstCaps and gives DSPF_UNKNOWN (line 1037).
FormatOfCapsOf(format) ==
  IF CapsIsNull(format) THEN "UNKNOWN"
  ELSE get_format_from_caps(get_caps_from_format(format))

\* A descriptor is translated to a format, the format to its canonical
\* descriptor, and that descriptor to a format again.
TranslateCaps(t) ==
  /\ Ready(t)
  /\ \E D \in FormatDescriptors :
       LET format == get_format_from_caps(D)
       IN th' = Returned(t, [pc |-> "format_done", caps |-> D,
                             format |-> format,
                             null |-> CapsIsNull(format),
                             again |-> FormatOfCapsOf(format)])
  /\ UNCHANGED << device, display, lifecycle, state, setup, sinkcfg, out_size,
                  geometry, buffer_pool, pool_lock, surfaces, created >>

\* A format is translated to its canonical descriptor and back.
TranslateFormat(t) ==
  /\ Ready(t)
  /\ \E format \in TranslatedFormats :
       th' = Returned(t, [pc |-> "caps_done", format |-> format,
                          null |-> CapsIsNull(format),
                          back |-> FormatOfCapsOf(format)])
  /\ UNCHANGED << device, display, lifecycle, state, setup, sinkcfg, out_size,
                  geometry, buffer_pool, pool_lock, surfaces, created >>

NextFormat ==
  \/ TranslateCaps(MainThread)
  \/ TranslateFormat(MainThread)

\* SpecFormat: the translator is applied to every descriptor and format of
\* the sets above.
SpecFormat == Init /\ [][NextFormat]_vars

\* ------------------------------------------------ the geometry fitter applied

\* Rectangles the fitter is applied to: sides up to MaxSide, zero included;
\* the origin of the source is not read, the destination's is.
FitSides == 0..MaxSide
SrcRects == [x : {0}, y : {0}, w : FitSides, h : FitSides]
DstRects == [x : {0, 2}, y : {0, 3}, w : FitSides, h : FitSides]

\* gst_dfbvideosink_center_rect applied to a source, a destination and the
\* two flags.  The result does not depend on earlier applications: a
\* behaviour applies the fitter once.
FitRect(t) ==
  /\ th[t].pc = "idle"
  /\ \E src \in SrcRects, dst \in DstRects,
        scaling \in BOOLEAN, keep_aspect_ratio \in BOOLEAN :
       th' = Returned(t, [pc |-> "fit_done", src |-> src, dst |-> dst,
                          scaling |-> scaling,
                          keep_aspect_ratio |-> keep_aspect_ratio,
                          result |-> center_rect(src, dst, scaling,
                                                 keep_aspect_ratio)])
  /\ UNCHANGED << device, display, lifecycle, state, setup, sinkcfg, out_size,
                  geometry, buffer_pool, pool_lock, surfaces, created >>

NextFit == FitRect(MainThread)

\* SpecFit: the fitter is applied to every pair of rectangles and flags.
SpecFit == Init /\ [][NextFit]_vars

\* ------------------------------------------------ the mode selection applied

\* The video modes a device may list, among them two of the same size and
\* different depth, and the lists of up to MaxModes of them.
ModeSet ==
  { [width |-> 720, height |-> 480, bpp |-> 24],
    [width |-> 1280, height |-> 720, bpp |-> 24],
    [width |-> 720, height |-> 480, bpp |-> 16],
    [width |-> 1000, height |-> 700, bpp |-> 32] }
ModeLists == UNION { [1..n -> ModeSet] : n \in 0..MaxModes }

\* The frame sizes a mode is looked for.
RequestSizes == {0, 720, 1000, 1280} \X {480, 600, 720}

\* NULL_TO_READY on a device that lists the modes.
OpenModes(t) ==
  \E modes \in ModeLists : NullToReady(t, "none", FALSE, modes, FALSE)

\* gst_dfbvideosink_get_best_vmode applied to the sink's modes and a frame
\* size.  The result does not depend on earlier applications: a behaviour
\* applies the selection once.
BestVMode(t) ==
  /\ th[t].pc \in {"idle", "state_done"}
  /\ \E request \in RequestSizes :
       LET v_width == request[1]
           v_height == request[2]
           best == get_best_vmode(vmodes, v_width, v_height)
       IN th' = Returned(t, [pc |-> "vmode_done", v_width |-> v_width,
                             v_height |-> v_height, ret |-> best.ret,
                             vmode |-> best.vmode])
  /\ UNCHANGED << device, display, lifecycle, state, setup, sinkcfg, out_size,
                  geometry, buffer_pool, pool_lock, surfaces, created >>

NextVMode ==
  \/ OpenModes(MainThread)
  \/ BestVMode(MainThread)

\* SpecVMode: the sink is set up on a device with any list of modes and the
\* mode selection is applied to any frame size.
SpecVMode == Init /\ [][NextVMode]_vars

\* ---------------------------------------------------- the copy path applied

\* Frames of up to MaxSide x MaxSide pixels of 2 bytes, in a buffer of the
\* frame's size or with 4 bytes of line padding; windows as setup leaves
\* them; sub-surface pitches of the window's width with and without padding.
CopySides == 1..MaxSide
CopyFrames == [w : CopySides, h : CopySides]
CopyWindows == [x : {0, 1}, y : {0, 1}, w : CopySides, h : CopySides]
CopyPads == {0, 4}

\* The copy path applied to a frame, a window and a build.  The result does
\* not depend on earlier applications: a behaviour applies it once.
CopyFrame(t) ==
  /\ th[t].pc = "idle"
  /\ \E src \in CopyFrames, win \in CopyWindows, pad \in CopyPads,
        shvio \in BOOLEAN, keep_aspect_ratio \in BOOLEAN :
       LET size == (2 * src.w + pad) * src.h
           dest_pitch == 2 * win.w + pad
       IN th' = Returned(t, [pc |-> "copy_done", src |-> src, size |-> size,
                             win |-> win, dest_pitch |-> dest_pitch,
                             shvio |-> shvio,
                             keep_aspect_ratio |-> keep_aspect_ratio]
                              @@ show_frame_copy(src, size, win, dest_pitch,
                                                 shvio, keep_aspect_ratio))
  /\ UNCHANGED << device, display, lifecycle, state, setup, sinkcfg, out_size,
                  geometry, buffer_pool, pool_lock, surfaces, created >>

NextCopy == CopyFrame(MainThread)

\* SpecCopy: the copy path is applied to every frame, window and build.
SpecCopy == Init /\ [][NextCopy]_vars

\* ------------------------------------------------------ the sink's lifetime

LifeBuffers == 2

\* SpecLife: the application takes the sink through NULL, READY and PAUSED,
\* negotiates and allocates, and drops its reference in any state; buffers
\* are released by the application's thread and by a streaming thread,
\* before and after that.  The event thread and a thread inside cleanup or
\* finalize are scheduled again and again.
StreamingThread == "t1"
LifeThreads == {MainThread, StreamingThread}

OpenLife(t) == NullToReady(t, "none", TRUE, DeviceModes, FALSE)

AllocLife(t) ==
  \E caps \in ConcCaps :
    BufferAllocEnter(t, caps, RequestSize(caps), "none", 0, 0, LifeBuffers)

NegotiateLife(t) ==
  /\ state = "PAUSED"
  /\ \E caps \in ConcCaps : SetCaps(t, caps, TRUE)

NextLife ==
  \/ UseSurface(MainThread)
  \/ OpenLife(MainThread)
  \/ ReadyToPaused(MainThread)
  \/ PausedToReady(MainThread)
  \/ BufferpoolClearLock(MainThread)
  \/ BufferpoolClearStep(MainThread)
  \/ BufferpoolClearUnlock(MainThread)
  \/ ReadyToNull(MainThread)
  \/ NegotiateLife(MainThread)
  \/ AllocLife(MainThread)
  \/ BufferAllocLock(MainThread)
  \/ BufferAllocScan(MainThread)
  \/ BufferAllocUnlock(MainThread)
  \/ AllocCreate(MainThread)
  \/ SinkUnref(MainThread)
  \/ \E t \in LifeThreads :
       \/ Release(t)
       \/ SurfaceRecycle(t)
       \/ SinkFinalize(t)
       \/ SurfaceDestroyFree(t)
       \/ CleanupJoin(t)
       \/ CleanupPrimary(t)
       \/ CleanupLayer(t)
       \/ CleanupDfb(t)
       \/ CleanupDone(t)
  \/ EventThreadExit

FairLife ==
  /\ WF_vars(EventThreadExit)
  /\ \A t \in LifeThreads :
       /\ WF_vars(SinkFinalize(t))
       /\ WF_vars(SurfaceDestroyFree(t))
       /\ WF_vars(CleanupJoin(t))
       /\ WF_vars(CleanupPrimary(t))
       /\ WF_vars(CleanupLayer(t))
       /\ WF_vars(CleanupDfb(t))
       /\ WF_vars(CleanupDone(t))
       /\ SF_vars(SurfaceRecycle(t))
  /\ SF_vars(BufferpoolClearLock(MainThread))
  /\ WF_vars(BufferpoolClearStep(MainThread))
  /\ WF_vars(BufferpoolClearUnlock(MainThread))
  /\ SF_vars(BufferAllocLock(MainThread))
  /\ WF_vars(BufferAllocScan(MainThread))
  /\ WF_vars(BufferAllocUnlock(MainThread))

SpecLife == Init /\ [][NextLife]_vars /\ FairLife

\* ------------------------------------------------------- fair scheduling

\* SpecFair: both threads allocate and release buffers in every
\* interleaving of their steps; the streaming thread also negotiates, the
\* application thread also changes the state; the device has hardware
\* scaling.
AllocEnterFair(t) ==
  \E caps \in ConcCaps :
    BufferAllocEnter(t, caps, RequestSize(caps), "none", 0, 0, FairBuffers)

NextFair ==
  \/ \E t \in Threads :
       \/ AllocEnterFair(t)
       \/ BufferAllocLock(t)
       \/ BufferAllocScan(t)
       \/ BufferAllocUnlock(t)
       \/ AllocCreate(t)
       \/ Release(t)
       \/ SurfaceRecycle(t)
  \/ NegotiateConc(Streaming)
  \/ OpenConc(Application)
  \/ ReadyToPaused(Application)
  \/ PausedToReady(Application)
  \/ BufferpoolClearLock(Application)
  \/ BufferpoolClearStep(Application)
  \/ BufferpoolClearUnlock(Application)

\* Fair scheduling: a thread that can take the pool lock again and again
\* takes it at last (g_mutex_lock in buffer_alloc, in
\* gst_dfbsurface_finalize and in gst_dfbvideosink_bufferpool_clear), and a
\* thread inside the scan goes on.
FairPool ==
  /\ \A t \in Threads :
       /\ SF_vars(BufferAllocLock(t))
       /\ WF_vars(BufferAllocScan(t))
       /\ WF_vars(BufferAllocUnlock(t))
       /\ SF_vars(SurfaceRecycle(t))
  /\ SF_vars(BufferpoolClearLock(Application))
  /\ WF_vars(BufferpoolClearStep(Application))
  /\ WF_vars(BufferpoolClearUnlock(Application))

SpecFair == Init /\ [][NextFair]_vars /\ FairPool

\* ------------------------------------------------------------- properties

\* The record of the last call of MainThread, or of its call under way.
Last == th[MainThread]

Range(seq) == { seq[i] : i \in DOMAIN seq }

\* The (width, height, pixel_format) a descriptor with geometry asks for.
CapsTag(caps) == << caps.width, caps.height, get_format_from_caps(caps) >>

\* buffer_alloc returned a buffer.
AllocReturned == Last.pc = "alloc_done" /\ Last.was_setup

\* The sink's negotiated (video_width, video_height, pixel_format).
Negotiated == << video_width, video_height, pixel_format >>

\* C1 (as claimed): a buffer buffer_alloc hands out from the pool has a
\* (width, height, pixel_format) tag equal to the geometry and format of the
\* caps attached to it.
C1_PoolBufferMatchesCaps ==
  (AllocReturned /\ Last.hit)
    => TagOf(surfaces[Last.buf]) = CapsTag(GivenCaps(Last))

\* The call before this buffer_alloc was a release that put its buffer into
\* the pool, and the buffer_alloc asks for that buffer's tag.
AllocAfterPooling ==
  /\ AllocReturned
  /\ Last.last.buf # NULL
  /\ Last.last.recycle
  /\ CapsTag(Last.caps) = Last.last.tag

\* C2 (as claimed): releasing a buffer whose tag is the negotiated geometry
\* and then immediately acquiring a buffer with that tag returns the same
\* buffer and allocates nothing.
C2_PoolHitAlways ==
  AllocAfterPooling => (Last.hit /\ Last.buf = Last.last.buf)

\* C2 (amended): releasing a buffer whose tag is the negotiated geometry and
\* then immediately acquiring a buffer with that tag returns the same buffer
\* and allocates nothing, unless the acquire reverse-negotiated another size
\* with the peer; then the released buffer is destroyed as a mismatch and
\* the buffer returned is another one, of the size the peer accepted, taken
\* from the pool or created.
C2_PoolHit ==
  /\ (AllocAfterPooling /\ ~Last.rev_nego)
       => /\ Last.hit
          /\ Last.buf = Last.last.buf
          /\ surfaces[Last.buf].st = "borrowed"
          /\ buffer_pool = Tail(Last.pool0)
  /\ (AllocAfterPooling /\ Last.rev_nego)
       => /\ Last.buf # Last.last.buf
          /\ surfaces[Last.last.buf].st = "destroyed"
          /\ surfaces[Last.buf].st = "borrowed"
          /\ surfaces[Last.buf].width = Last.width
          /\ surfaces[Last.buf].height = Last.height
          /\ << Last.width, Last.height >>
               # << Last.caps.width, Last.caps.height >>

\* C2: a buffer of the negotiated 2x2 geometry was pooled and handed out
\* again by the next buffer_alloc, on a device without hardware scaling.
C2_Witness ==
  /\ AllocAfterPooling
  /\ ~Last.rev_nego
  /\ ~hw_scaling
  /\ Last.caps.width = 2
  /\ Last.buf = Last.last.buf

\* The returned buffer_alloc looked for the width and height of the
\* descriptor it was called with: no proposal of the sink replaced them.
KeptGeometry ==
  /\ ~Last.rev_nego
  /\ Last.width = Last.caps.width
  /\ Last.height = Last.caps.height

\* The call before this buffer_alloc was a release that destroyed its
\* buffer, and the buffer_alloc asks for that buffer's tag.
AllocAfterDestroy ==
  /\ AllocReturned
  /\ Last.last.buf # NULL
  /\ ~Last.last.recycle
  /\ CapsTag(Last.caps) = Last.last.tag

\* What a returned release did with its buffer: pooled it in front exactly
\* when its tag was the negotiated geometry, destroyed it otherwise.
ReleaseDecided ==
  Last.pc = "fin_done"
    => /\ Last.recycle <=> (Last.tag = Last.geom0)
       /\ Last.recycle
            => /\ buffer_pool = <<Last.buf>> \o Last.pool0
               /\ surfaces[Last.buf].st = "pooled"
       /\ ~Last.recycle
            => /\ buffer_pool = Last.pool0
               /\ Last.buf \notin Range(buffer_pool)
               /\ surfaces[Last.buf].st = "destroyed"

\* C3 (as claimed): a release of a buffer whose tag differs from the
\* negotiated geometry destroys it, a release of a matching one prepends it
\* to the pool, and the acquire for the old tag after a destroying release
\* returns a freshly allocated buffer.  Stated of the acquires that kept the
\* geometry they were asked for.
C3_FreshAfterDestroy ==
  /\ ReleaseDecided
  /\ (AllocAfterDestroy /\ KeptGeometry)
       => (~Last.hit /\ Last.buf # Last.last.buf)

\* The (width, height, pixel_format) the returned buffer_alloc was asked
\* for: the tag of the descriptor it was called with.
Wanted == CapsTag(Last.caps)

\* The places of the pool, as the scan found it, whose tag is the wanted one.
Matches == { i \in 1..Len(Last.pool0) : Last.tags0[i] = Wanted }

FirstMatch == CHOOSE k \in Matches : \A i \in Matches : k <= i

\* C4 (as claimed): buffer_alloc scans the pool from its head: the entries
\* in front of the first match are removed and destroyed, the first entry
\* whose tag is the requested (width, height, pixel_format) is removed and
\* returned, the entries behind it stay in the pool in their order; without
\* a match the pool ends empty and a new buffer is allocated.  Stated of the
\* calls that kept the geometry they were asked for.
C4_ScanFirstMatch ==
  (AllocReturned /\ KeptGeometry)
    => IF Matches = {}
       THEN /\ ~Last.hit
            /\ buffer_pool = <<>>
            /\ \A i \in 1..Len(Last.pool0) :
                 surfaces[Last.pool0[i]].st = "destroyed"
            /\ Last.buf \notin Range(Last.pool0)
            /\ Last.buf = created
            /\ surfaces[Last.buf].st = "borrowed"
       ELSE /\ Last.hit
            /\ Last.buf = Last.pool0[FirstMatch]
            /\ surfaces[Last.buf].st = "borrowed"
            /\ TagOf(surfaces[Last.buf]) = Wanted
            /\ buffer_pool
                 = SubSeq(Last.pool0, FirstMatch + 1, Len(Last.pool0))
            /\ \A i \in 1..Len(Last.pool0) :
                 /\ i < FirstMatch
                      => surfaces[Last.pool0[i]].st = "destroyed"
                 /\ i > FirstMatch
                      => /\ surfaces[Last.pool0[i]].st = "pooled"
                         /\ TagOf(surfaces[Last.pool0[i]]) = Last.tags0[i]

\* C5 (as claimed): every buffer buffer_alloc returns, reused or new, has
\* the byte size requested for it (the recomputed size after an accepted
\* reverse negotiation).
C5_ExactSize ==
  AllocReturned => surfaces[Last.buf].size = Last.size

\* The line pitch times the height of the native surface DirectFB made for
\* the returned buffer_alloc.
NativeSize(caps) ==
  (caps.width * BytesPerPixel(get_format_from_caps(caps)) + Last.pad)
    * caps.height

\* One of the reasons gst_dfbvideosink_surface_create has to fall back.
MustFallBack(caps) ==
  \/ ~HasGeometry(caps)
  \/ get_format_from_caps(caps) = "UNKNOWN"
  \/ ~Last.have_dfb
  \/ ~Last.create_ok
  \/ NativeSize(caps) # Last.size

\* C6: allocating a new buffer never fails: without usable geometry, with
\* an UNKNOWN format, without a DirectFB context, when CreateSurface fails or
\* when pitch * height differs from the requested size, the buffer is plain
\* memory of exactly the requested size and holds no native surface, locked
\* or not; otherwise it is a locked native surface.
C6_NewBufferNeverFails ==
  (AllocReturned /\ ~Last.hit)
    => /\ Last.buf # NULL
       /\ surfaces[Last.buf].st = "borrowed"
       /\ surfaces[Last.buf].size = Last.size
       /\ IF MustFallBack(GivenCaps(Last))
          THEN ~surfaces[Last.buf].surface /\ ~surfaces[Last.buf].locked
          ELSE surfaces[Last.buf].surface /\ surfaces[Last.buf].locked

\* C6: DirectFB made a surface for a known format, its line padding made
\* pitch * height differ from the requested size, and the buffer is plain
\* memory.
C6_Witness ==
  /\ AllocReturned
  /\ ~Last.hit
  /\ HasGeometry(Last.caps)
  /\ get_format_from_caps(Last.caps) # "UNKNOWN"
  /\ Last.have_dfb
  /\ Last.create_ok
  /\ Last.pad > 0
  /\ ~surfaces[Last.buf].surface
  /\ surfaces[Last.buf].size = Last.size

\* C7: gst_dfbvideosink_bufferpool_clear removes the whole pool with the
\* pool lock held: while it is in its loop it holds the lock, the pool is
\* what is left of the pool it found, every entry it removed is destroyed,
\* once, and no step of another thread changes the pool or a buffer that
\* was in it; when it unlocks and returns the pool is empty and every buffer
\* that was in the pool has been destroyed exactly once, whatever its tag.
C7_ClearEmptiesPool ==
  /\ [](Last.pc = "clear_loop"
          => /\ pool_lock = MainThread
             /\ Last.pool0 = Last.cleared \o buffer_pool
             /\ \A i \in 1..Len(Last.cleared) :
                  /\ surfaces[Last.cleared[i]].st = "destroyed"
                  /\ surfaces[Last.cleared[i]].destroys = 1
             /\ \A i \in 1..Len(buffer_pool) :
                  surfaces[buffer_pool[i]].st = "pooled")
  /\ [][(Last.pc = "clear_loop" /\ th'[MainThread] = th[MainThread])
          => /\ buffer_pool' = buffer_pool
             /\ pool_lock' = pool_lock
             /\ \A i \in 1..Len(Last.pool0) :
                  surfaces'[Last.pool0[i]] = surfaces[Last.pool0[i]]]_vars
  /\ [][BufferpoolClearUnlock(MainThread)
          => /\ pool_lock = MainThread
             /\ pool_lock' = NoThread
             /\ buffer_pool' = <<>>
             /\ Last.cleared = Last.pool0
             /\ \A i \in 1..Len(Last.pool0) :
                  /\ surfaces'[Last.pool0[i]].st = "destroyed"
                  /\ surfaces'[Last.pool0[i]].destroys = 1]_vars

\* C7: the clear has destroyed the first of two pooled buffers and holds
\* the lock.
C7_Witness ==
  /\ Last.pc = "clear_loop"
  /\ Len(Last.pool0) = 2
  /\ Len(Last.cleared) = 1
  /\ pool_lock = MainThread

\* setcaps returned TRUE and changed the negotiated geometry.
GeometryChanged ==
  /\ Last.pc = "setcaps_done"
  /\ Last.result
  /\ Last.geom0 # Negotiated

\* C8 (as claimed): after a successful setcaps that changes the negotiated
\* width, height or pixel format the pool has been emptied.
C8_SetCapsClearsPool == GeometryChanged => buffer_pool = <<>>

\* C9 (as claimed): the tag comparison that decides whether a released
\* buffer is pooled happens in the critical section that pools it, so the
\* negotiated geometry the prepend finds is the one the comparison read.
C9_DecisionInCriticalSection ==
  [][\A t \in Threads :
       SurfaceRecycle(t) => th[t].geom0 = Negotiated]_vars

\* C10: in every interleaving of two threads no buffer is in the pool
\* twice, every pool entry is a released buffer nobody has borrowed, the pool
\* holds exactly the buffers released into it and not removed since, no
\* buffer is destroyed twice, and a buffer a buffer_alloc took from the pool
\* is taken by that call alone.
C10_PoolConsistent ==
  /\ \A i, j \in 1..Len(buffer_pool) :
       buffer_pool[i] = buffer_pool[j] => i = j
  /\ \A i \in 1..Len(buffer_pool) : surfaces[buffer_pool[i]].st = "pooled"
  /\ Len(buffer_pool)
       = Cardinality({ b \in BufIds : surfaces[b].st = "pooled" })
  /\ \A b \in BufIds : surfaces[b].destroys <= 1
  /\ \A t \in Threads :
       (th[t].pc \in {"alloc_scan", "alloc_create"} /\ th[t].surface # NULL)
         => /\ surfaces[th[t].surface].st = "taken"
            /\ \A u \in Threads \ {t} :
                 th[u].pc \in {"alloc_scan", "alloc_create"}
                   => th[u].surface # th[t].surface
  /\ Cardinality({ b \in BufIds : surfaces[b].st = "taken" })
       = Cardinality({ t \in Threads :
                         /\ th[t].pc \in {"alloc_scan", "alloc_create"}
                         /\ th[t].surface # NULL })

\* C10: one thread has taken a buffer from the pool and still holds the
\* lock while the other has decided to pool its buffer and waits for the
\* lock.
C10_Witness ==
  /\ th["t1"].pc = "alloc_scan"
  /\ th["t1"].surface # NULL
  /\ pool_lock = "t1"
  /\ th["t2"].pc = "fin_lock"

\* C12: translating a descriptor to a format, the format to its canonical
\* descriptor and that descriptor to a format again gives the first format;
\* the canonical descriptor of each of the nine supported formats exists and
\* translates back to that format.
C12_RoundTrip ==
  /\ Last.pc = "format_done" => Last.again = Last.format
  /\ (Last.pc = "caps_done" /\ Last.format \in SupportedFormats)
       => (~Last.null /\ Last.back = Last.format)

\* C12: a descriptor with an alpha mask was translated to ARGB and ARGB's
\* canonical descriptor back to ARGB.
C12_Witness ==
  /\ Last.pc = "format_done"
  /\ HasField(Last.caps, "alpha_mask")
  /\ Last.format = "ARGB"
  /\ Last.again = "ARGB"

\* The rows of the RGB table: bpp, depth, byte order, red, green and blue
\* mask of a format.
RGBRow(f) ==
  CASE f = "RGB16" -> << 16, 16, G_BIG_ENDIAN, 63488, 2016, 31 >>
    [] f = "RGB24" -> << 24, 24, G_BIG_ENDIAN, 16711680, 65280, 255 >>
    [] f = "RGB32" -> << 32, 24, G_BIG_ENDIAN, 16711680, 65280, 255 >>
    [] f = "ARGB" -> << 32, 32, G_BIG_ENDIAN, 16711680, 65280, 255 >>

\* The six fields of an RGB descriptor that has them all.
RGBFields(D) ==
  << D.bpp, D.depth, D.endianness, D.red_mask, D.green_mask, D.blue_mask >>

\* D is an RGB descriptor with all six fields.
IsFullRGB(D) ==
  /\ D.name = "video/x-raw-rgb"
  /\ {"bpp", "depth", "endianness", "red_mask", "green_mask", "blue_mask"}
       \subseteq DOMAIN D

\* C13: the translation of a descriptor is RGB16, RGB24 or RGB32 exactly
\* when the descriptor is an RGB one with all six fields equal to that
\* format's row and without an alpha mask, ARGB exactly when it is an RGB one
\* with all six fields equal to ARGB's row and ARGB's alpha mask, one of
\* I420, YV12, YUY2, UYVY, NV12 exactly when it is a YUV one with that
\* four-character code, and UNKNOWN for every other descriptor.
C13_ExactMatch ==
  Last.pc = "format_done"
    => LET D == Last.caps
           f == Last.format
       IN /\ \A g \in {"RGB16", "RGB24", "RGB32"} :
               f = g <=> /\ IsFullRGB(D)
                         /\ RGBFields(D) = RGBRow(g)
                         /\ "alpha_mask" \notin DOMAIN D
          /\ f = "ARGB" <=> /\ IsFullRGB(D)
                            /\ RGBFields(D) = RGBRow("ARGB")
                            /\ "alpha_mask" \in DOMAIN D
                            /\ D.alpha_mask = -16777216
          /\ \A g \in {"I420", "YV12", "YUY2", "UYVY", "NV12"} :
               f = g <=> /\ D.name = "video/x-raw-yuv"
                         /\ "format" \in DOMAIN D
                         /\ D.format = g
          /\ f \in SupportedFormats \cup {"UNKNOWN"}

\* C13: a descriptor equal to RGB32's row but carrying an alpha mask was
\* translated to UNKNOWN.
C13_Witness ==
  /\ Last.pc = "format_done"
  /\ IsFullRGB(Last.caps)
  /\ RGBFields(Last.caps) = RGBRow("RGB32")
  /\ "alpha_mask" \in DOMAIN Last.caps
  /\ Last.format = "UNKNOWN"

\* The smaller of two numbers.
Min(a, b) == IF a < b THEN a ELSE b

\* C14: with scaling allowed and the aspect ratio not kept, the result of
\* gst_dfbvideosink_center_rect has the destination's x, y, width and height,
\* whatever the source.
C14_StretchIsDestination ==
  (Last.pc = "fit_done" /\ Last.scaling /\ ~Last.keep_aspect_ratio)
    => /\ Last.result.x = Last.dst.x
       /\ Last.result.y = Last.dst.y
       /\ Last.result.w = Last.dst.w
       /\ Last.result.h = Last.dst.h

\* C14: a source of another aspect ratio than the destination, which is not
\* at the origin, was stretched.
C14_Witness ==
  /\ Last.pc = "fit_done"
  /\ Last.scaling
  /\ ~Last.keep_aspect_ratio
  /\ Last.src.w = 4 /\ Last.src.h = 1
  /\ Last.dst.w = 2 /\ Last.dst.h = 3
  /\ Last.dst.x = 2
  /\ Last.result = Last.dst

\* C15: without scaling and with the aspect ratio kept, the result is no
\* wider and no higher than the destination and than the source (the source
\* is clipped to the destination, never enlarged), it is centered in the
\* destination and translated by the destination's origin.
C15_NoScalingWithinDestination ==
  (Last.pc = "fit_done" /\ ~Last.scaling /\ Last.keep_aspect_ratio)
    => /\ Last.result.w <= Last.dst.w
       /\ Last.result.h <= Last.dst.h
       /\ Last.result.w = Min(Last.src.w, Last.dst.w)
       /\ Last.result.h = Min(Last.src.h, Last.dst.h)
       /\ Last.result.x = Last.dst.x + (Last.dst.w - Last.result.w) \div 2
       /\ Last.result.y = Last.dst.y + (Last.dst.h - Last.result.h) \div 2

\* C15: a source wider and lower than the destination was clipped in width
\* and centered in height, in a destination that is not at the origin.
C15_Witness ==
  /\ Last.pc = "fit_done"
  /\ ~Last.scaling
  /\ Last.keep_aspect_ratio
  /\ Last.src.w > Last.dst.w
  /\ Last.src.h < Last.dst.h
  /\ Last.dst.x > 0
  /\ Last.result.w = Last.dst.w
  /\ Last.result.y > Last.dst.y

\* C16: with scaling allowed and the aspect ratio kept, a source of zero
\* width and height gives a result of zero width and height, and so does
\* every source or destination with a zero width or height; the result is
\* returned, no error is raised.
C16_ZeroSizedResult ==
  (Last.pc = "fit_done" /\ Last.scaling /\ Last.keep_aspect_ratio)
    => /\ (Last.src.w = 0 /\ Last.src.h = 0)
            => (Last.result.w = 0 /\ Last.result.h = 0)
       /\ (0 \in {Last.src.w, Last.src.h, Last.dst.w, Last.dst.h})
            => (Last.result.w = 0 /\ Last.result.h = 0)
       /\ DOMAIN Last.result = {"x", "y", "w", "h"}

\* C16: a source of zero width and height was fitted, with scaling and the
\* aspect ratio kept, into a destination of 4x4 that is not at the origin.
C16_Witness ==
  /\ Last.pc = "fit_done"
  /\ Last.scaling
  /\ Last.keep_aspect_ratio
  /\ Last.src.w = 0 /\ Last.src.h = 0
  /\ Last.dst.w = 4 /\ Last.dst.h = 4
  /\ Last.dst.x > 0
  /\ Last.result.w = 0 /\ Last.result.h = 0

\* The gap sum of a mode for the frame size of the last mode selection.
Gap(mode) ==
  Abs(mode.width - Last.v_width) + Abs(mode.height - Last.v_height)

\* C18: for a non-empty list gst_dfbvideosink_get_best_vmode returns the
\* first mode of the list whose gap sum |width - requested width| +
\* |height - requested height| is the smallest of the list; for an empty list
\* it returns FALSE and writes no mode.
C18_BestModeFirstWins ==
  Last.pc = "vmode_done"
    => IF vmodes = <<>>
       THEN ~Last.ret /\ Last.vmode = NULL
       ELSE /\ Last.ret
            /\ \E k \in 1..Len(vmodes) :
                 /\ Last.vmode = vmodes[k]
                 /\ \A i \in 1..Len(vmodes) : Gap(vmodes[k]) <= Gap(vmodes[i])
                 /\ \A i \in 1..(k - 1) : Gap(vmodes[k]) < Gap(vmodes[i])

\* C18: of three modes the second and the third have the smallest gap sum,
\* they differ, and the second was returned.
C18_Witness ==
  /\ Last.pc = "vmode_done"
  /\ Len(vmodes) = 3
  /\ Gap(vmodes[2]) < Gap(vmodes[1])
  /\ Gap(vmodes[2]) = Gap(vmodes[3])
  /\ vmodes[2] # vmodes[3]
  /\ Last.ret
  /\ Last.vmode = vmodes[2]

\* The mode selection was applied to the modes 720x480 and 1280x720, in
\* that order, and the frame size 1000x600.
Example1000x600 ==
  /\ Last.pc = "vmode_done"
  /\ vmodes = << [width |-> 720, height |-> 480, bpp |-> 24],
                 [width |-> 1280, height |-> 720, bpp |-> 24] >>
  /\ Last.v_width = 1000
  /\ Last.v_height = 600

\* C19 (as claimed): with the modes 720x480 and 1280x720 in that order and
\* the frame size 1000x600 the selection returns 1280x720.
C19_Selects1280x720 ==
  Example1000x600
    => (Last.ret /\ Last.vmode = [width |-> 1280, height |-> 720, bpp |-> 24])

\* C19 (amended): with the modes 720x480 and 1280x720 in that order and the
\* frame size 1000x600 both gap sums are 400 and the selection returns the
\* first of the two, 720x480.
C19_Selects720x480 ==
  Example1000x600
    => /\ Gap(vmodes[1]) = 400
       /\ Gap(vmodes[2]) = 400
       /\ Last.ret
       /\ Last.vmode = [width |-> 720, height |-> 480, bpp |-> 24]

\* C19: the selection was applied to the example and returned a mode.
C19_Witness == Example1000x600 /\ Last.ret /\ Last.vmode.width = 720

\* C17: with hardware scaling a buffer_alloc for a descriptor with geometry
\* does not ask the peer and proposes nothing: the pool scan looks for the
\* requested width and height, the buffer is allocated for the requested
\* width, height and byte size, and the caller's caps are attached.
C17_HwScalingSkipsNegotiation ==
  (AllocReturned /\ Last.hw_scaling /\ HasGeometry(Last.caps))
    => /\ ~Last.asked
       /\ ~Last.rev_nego
       /\ << Last.width, Last.height >>
            = << Last.caps.width, Last.caps.height >>
       /\ Last.size = Last.req_size
       /\ GivenCaps(Last) = Last.caps
       /\ surfaces[Last.buf].width = Last.caps.width
       /\ surfaces[Last.buf].height = Last.caps.height
       /\ ~Last.hit => /\ surfaces[Last.buf].size = Last.req_size
                       /\ TagOf(surfaces[Last.buf]) = CapsTag(Last.caps)

\* C17: with hardware scaling and a device mode of 4x4 a new buffer was
\* allocated for a 2x2 request.
C17_Witness ==
  /\ AllocReturned
  /\ Last.hw_scaling
  /\ vmodes # <<>>
  /\ Last.caps.width = 2
  /\ ~Last.hit
  /\ surfaces[Last.buf].width = 2

\* The rectangle buffer_alloc fits the request of the last call into: the
\* best video mode, or the size of the output surface when no mode is known.
FitTarget ==
  LET best == get_best_vmode(vmodes, Last.caps.width, Last.caps.height)
  IN IF best.ret
     THEN [x |-> 0, y |-> 0, w |-> best.vmode.width, h |-> best.vmode.height]
     ELSE IF ext_surface
     THEN [x |-> 0, y |-> 0, w |-> ExtSurfaceSize.w, h |-> ExtSurfaceSize.h]
     ELSE [x |-> 0, y |-> 0, w |-> PrimarySize.w, h |-> PrimarySize.h]

\* The size fitted into the target.
Fitted ==
  center_rect([x |-> 0, y |-> 0, w |-> Last.caps.width,
               h |-> Last.caps.height], FitTarget, TRUE, keep_ar)

\* The request was used as it came: nothing proposed, nothing recomputed.
RequestUnchanged ==
  /\ ~Last.rev_nego
  /\ Last.width = Last.caps.width
  /\ Last.height = Last.caps.height
  /\ Last.size = Last.req_size
  /\ GivenCaps(Last) = Last.caps

\* C20: without hardware scaling, when the fitted size is the requested one
\* nothing is proposed and the request is used unchanged; when it differs
\* and there is a peer, the fitted size is proposed, and after an accepted
\* proposal the buffer is allocated for the fitted width and height with the
\* byte size (requested bytes div (requested width * height)) * fitted
\* width * fitted height, and carries the proposed caps.
C20_AcceptedProposalSize ==
  (AllocReturned /\ ~Last.hw_scaling /\ HasGeometry(Last.caps))
    => IF Fitted.w = Last.caps.width /\ Fitted.h = Last.caps.height
       THEN ~Last.asked /\ RequestUnchanged
       ELSE /\ ~Last.asked => RequestUnchanged
            /\ Last.rev_nego
                 => /\ Last.asked
                    /\ Last.width = Fitted.w
                    /\ Last.height = Fitted.h
                    /\ Last.size
                         = (Last.req_size
                              \div (Last.caps.width * Last.caps.height))
                             * Fitted.w * Fitted.h
                    /\ GivenCaps(Last).width = Fitted.w
                    /\ GivenCaps(Last).height = Fitted.h
                    /\ ~Last.hit
                         => /\ surfaces[Last.buf].size = Last.size
                            /\ surfaces[Last.buf].width = Fitted.w
                            /\ surfaces[Last.buf].height = Fitted.h

\* C20: a request of 12 bytes for 2x2 was fitted to 4x4, the peer accepted,
\* and the new buffer has 3 * 4 * 4 bytes.
C20_Witness ==
  /\ AllocReturned
  /\ ~Last.hw_scaling
  /\ Last.rev_nego
  /\ Last.caps.width = 2
  /\ Last.req_size = 12
  /\ Fitted.w = 4
  /\ ~Last.hit
  /\ surfaces[Last.buf].size = 48

\* C11: the pool never holds a null entry, every iteration of the scan
\* and of the clear takes one entry off the pool, the holder of the pool
\* lock is inside the scan or the loop of the clear and waits for no lock,
\* and under fair scheduling every buffer_alloc that waits for the pool lock
\* gets it, ends its scan and unlocks, every release that waits for the lock
\* pools its buffer and unlocks, every clear that waits for the lock gets
\* it, empties the pool and unlocks: the lock is never held for ever.
C11_PoolOperationsFinish ==
  /\ [](\A i \in 1..Len(buffer_pool) : buffer_pool[i] \in BufIds)
  /\ [](\A t \in Threads :
          pool_lock = t => th[t].pc \in {"alloc_scan", "clear_loop"})
  /\ [][\A t \in Threads :
          (BufferAllocScan(t) \/ BufferpoolClearStep(t))
            => Len(buffer_pool') = Len(buffer_pool) - 1]_vars
  /\ \A t \in Threads :
       /\ (th[t].pc = "alloc_lock") ~> (th[t].pc = "alloc_create")
       /\ (th[t].pc = "alloc_scan") ~> (th[t].pc = "alloc_create")
       /\ (th[t].pc = "fin_lock") ~> (th[t].pc = "idle")
       /\ (th[t].pc = "p2r_clear") ~> (th[t].pc = "clear_loop")
       /\ (th[t].pc = "clear_loop") ~> (th[t].pc = "idle")
       /\ (pool_lock = t) ~> (pool_lock = NoThread)

\* C11: a clear waits for the pool lock while the other thread holds it in
\* its scan, with entries left to scan.
C11_Witness ==
  /\ th[Application].pc = "p2r_clear"
  /\ pool_lock = Streaming
  /\ th[Streaming].pc = "alloc_scan"
  /\ buffer_pool # <<>>

\* C21: when no video mode is known, a buffer_alloc that runs the reverse
\* negotiation (no hardware scaling, a descriptor with geometry) records the
\* size of the external surface, if one is set, and of the primary surface
\* otherwise as the sink's output size, and what it proposes to the peer is
\* the request fitted into that size.
C21_FallsBackToDefaultSize ==
  (AllocReturned /\ ~Last.hw_scaling /\ HasGeometry(Last.caps)
     /\ vmodes = <<>>)
    => LET dflt == IF ext_surface THEN ExtSurfaceSize ELSE PrimarySize
           fit == center_rect([x |-> 0, y |-> 0, w |-> Last.caps.width,
                               h |-> Last.caps.height],
                              [x |-> 0, y |-> 0, w |-> dflt.w, h |-> dflt.h],
                              TRUE, keep_ar)
           differs == fit.w # Last.caps.width \/ fit.h # Last.caps.height
       IN /\ out_size = dflt
          /\ Last.asked => differs
          /\ Last.rev_nego
               => /\ Last.asked
                  /\ Last.width = fit.w /\ Last.width <= dflt.w
                  /\ Last.height = fit.h /\ Last.height <= dflt.h

\* C21: on an application surface of 2x2 and no video mode, a 4x4 request
\* was fitted to 2x2, the peer accepted, and the output size is 2x2.
C21_Witness ==
  /\ AllocReturned
  /\ ~Last.hw_scaling
  /\ vmodes = <<>>
  /\ ext_surface
  /\ Last.caps.width = 4
  /\ Last.rev_nego
  /\ Last.width = 2
  /\ out_size = ExtSurfaceSize

\* The last call was a NULL_TO_READY whose setup succeeded.
SetupSucceeded ==
  /\ Last.pc = "state_done"
  /\ Last.transition = "N2R"
  /\ setup

\* C22: right after a successful setup on a target surface of W x H (the
\* external surface if set, the primary otherwise) a window width (height)
\* of 0 has become W (H) and any other is kept, an x (y) offset of at least
\* W (H) has become x mod W (y mod H) and any other is kept, so that
\* window.w > 0, window.h > 0, 0 <= window.x < W and 0 <= window.y < H.
C22_WindowValidAfterSetup ==
  SetupSucceeded
    => LET W == IF ext_surface THEN ExtSurfaceSize.w ELSE PrimarySize.w
           H == IF ext_surface THEN ExtSurfaceSize.h ELSE PrimarySize.h
           old == Last.window0
       IN /\ window.w = (IF old.w = 0 THEN W ELSE old.w)
          /\ window.h = (IF old.h = 0 THEN H ELSE old.h)
          /\ window.x = (IF old.x >= W THEN old.x % W ELSE old.x)
          /\ window.y = (IF old.y >= H THEN old.y % H ELSE old.y)
          /\ window.w > 0 /\ window.h > 0
          /\ 0 <= window.x /\ window.x < W
          /\ 0 <= window.y /\ window.y < H

\* C22: a window of width 0 at x offset 5 and y offset 9 was set up on the
\* 4x4 primary surface: the width is 4, the offsets are 1 and 1.
C22_Witness ==
  /\ SetupSucceeded
  /\ ~ext_surface
  /\ Last.window0.w = 0 /\ Last.window0.x = 5 /\ Last.window0.y = 9
  /\ window.w = 4 /\ window.x = 1 /\ window.y = 1

\* Every variable but the threads' records.
SinkAndPool ==
  << state, setup, sinkcfg, out_size, geometry, buffer_pool, pool_lock,
     surfaces, created, display, lifecycle, device >>

\* A step of the streaming thread inside buffer_alloc or show_frame: the
\* call is entered, goes on, returns or crashes.
AllocOrShowStep ==
  /\ th'[MainThread] # th[MainThread]
  /\ \/ th[MainThread].pc \in {"alloc_lock", "alloc_scan", "alloc_create",
                               "show_sync", "show_render", "show_test",
                               "show_post", "show_clear"}
     \/ th'[MainThread].pc \in {"alloc_lock", "alloc_done", "show_sync",
                                "show_done"}

\* C23 (as claimed): while the sink is not set up, buffer_alloc returns no
\* buffer and show_frame returns GST_FLOW_UNEXPECTED, renders nothing and
\* posts nothing; neither changes the pool, a buffer or a field of the sink.
C23_NotSetupNoEffect ==
  [][(~setup /\ AllocOrShowStep)
       => /\ th'[MainThread].pc \in {"alloc_done", "show_done"}
          /\ th'[MainThread].pc = "alloc_done"
               => /\ th'[MainThread].buf = NULL
                  /\ ~th'[MainThread].hit
          /\ th'[MainThread].pc = "show_done"
               => /\ th'[MainThread].ret = "UNEXPECTED"
                  /\ ~th'[MainThread].rendered
                  /\ ~th'[MainThread].posts
          /\ UNCHANGED SinkAndPool]_vars

\* C25 (as claimed): at most one FrameRendered message is posted per
\* PAUSED_TO_PLAYING, and a frame that was shown is followed by the message
\* exactly when it was shown in PLAYING as the first since the change to
\* PLAYING, so a frame shown in PAUSED is followed by none.
C25_FirstFrameMessage ==
  /\ posted <= 1
  /\ (Last.pc = "show_done" /\ Last.rendered)
       => (Last.posts <=> /\ Last.state0 = "PLAYING"
                          /\ Last.shown0 = 0)

\* C26: a buffer buffer_alloc hands out with a native surface is locked,
\* whether it was created or taken from the pool, and a locked buffer holds
\* a native surface.
C26_HandedOutLocked ==
  /\ \A b \in BufIds : surfaces[b].locked => surfaces[b].surface
  /\ (AllocReturned /\ surfaces[Last.buf].surface)
       => surfaces[Last.buf].locked

\* C24: from the end of a PAUSED_TO_READY to the next successful setcaps,
\* that is while the sink is set up with video_width = video_height = 0 and
\* no clear is under way, the pool is empty: a buffer released meanwhile has
\* a tag that differs from the zeroed geometry and is destroyed.
C24_PoolEmptyWhileReset ==
  (setup /\ ~Changing /\ video_width = 0 /\ video_height = 0)
    => buffer_pool = <<>>

\* C27: the copy loop of show_frame stays inside the source buffer: it
\* copies at most as many lines as the frame has, reads at most one source
\* pitch per line, and the last byte it reads is within GST_BUFFER_SIZE, in
\* the plain build and in the HAVE_SHVIO build.
C27_CopyWithinSource ==
  Last.pc = "copy_done"
    => /\ Last.lines <= Last.src.h
       /\ Last.line_bytes <= Last.src_pitch
       /\ Last.lines > 0
            => (Last.lines - 1) * Last.src_pitch + Last.line_bytes
                 <= Last.size

\* C28: whenever setup is FALSE the sink has no event thread: the
\* event_thread field is NULL, running is FALSE and no thread is in the
\* loop of gst_dfbvideosink_event_thread; this holds after a NULL_TO_READY
\* whose setup failed and after cleanup.
C28_NoThreadWithoutSetup ==
  ~setup => (~event_thread /\ ~running /\ ev # "loop")

\* C29: every call of gst_dfbvideosink_cleanup terminates: a thread that
\* waits in g_thread_join for the event thread eventually gets past it, from
\* READY_TO_NULL and from the sink's finalize.
C29_CleanupTerminates ==
  \A t \in LifeThreads :
    (th[t].pc = "cleanup_join") ~> (th[t].pc # "cleanup_join")

\* No buffer object exists: every buffer that was created has been freed.
NoLiveBuffer ==
  \A b \in BufIds : surfaces[b].st \in {"none", "destroyed"}

\* gst_dfbvideosink_finalize is running or has run.
Finalizing ==
  \/ finalized
  \/ pool_lock = Freed
  \/ \E t \in Callers : th[t].pc = "sink_finalize"

\* No thread is about to lock the pool mutex or holds it.
NoPoolUser ==
  /\ pool_lock \in {NoThread, Freed}
  /\ \A t \in Callers :
       th[t].pc \notin {"cleanup_clear", "p2r_clear", "clear_loop",
                        "fin_lock", "alloc_lock", "alloc_scan"}

\* C30 (as claimed): every live buffer, borrowed, being released, pooled or
\* taken from the pool, holds its reference on the sink; when
\* gst_dfbvideosink_finalize starts and from then on no buffer exists and
\* the pool is empty, and no thread is about to lock the pool mutex that
\* finalize freed or holds it.
C30_SinkOutlivesBuffers ==
  /\ \A b \in BufIds :
       surfaces[b].sink <=> surfaces[b].st \in {"borrowed", "finalizing",
                                                "pooled", "taken"}
  /\ Finalizing => (NoLiveBuffer /\ buffer_pool = <<>> /\ NoPoolUser)

\* The buffers whose release has dropped their reference on the sink and
\* has not freed them yet, and the threads that are inside such a release.
BeingDestroyed == { b \in BufIds : surfaces[b].st = "destroying" }
Destroyers == { t \in Callers : Nested(t) # <<>> }

\* C30 (amended): every live buffer holds its reference on the sink until
\* its destruction drops it; the sink is finalized only when no buffer holds
\* a reference, and its finalize runs inside the destruction of the buffer
\* that dropped the last one (or in the application's unref): at most that
\* one buffer, without reference and without native surface, exists while
\* finalize runs and is freed only after it; the pool is empty whenever
\* finalize runs, and no thread is about to lock the freed pool mutex or
\* holds it.
C30_FinalizedWithoutHolders ==
  /\ \A b \in BufIds :
       surfaces[b].sink <=> surfaces[b].st \in {"borrowed", "finalizing",
                                                "pooled", "taken"}
  /\ \A b \in BeingDestroyed :
       /\ ~surfaces[b].surface
       /\ Finalizing
       /\ \E t \in Destroyers :
            /\ th[t].nested[1].buf = b
            /\ th[t].pc \notin DonePcs
  /\ Cardinality(BeingDestroyed) <= 1
  /\ Finalizing
       => /\ SinkHolders(surfaces) = {}
          /\ \A b \in BufIds :
               surfaces[b].st \in {"none", "destroyed", "destroying"}
          /\ buffer_pool = <<>>
          /\ NoPoolUser

\* C30: the release of the last buffer has dropped the last reference on
\* the sink; the sink's finalize has run inside it and returned, and the
\* buffer is not freed yet.
C30_Witness ==
  /\ finalized
  /\ pool_lock = Freed
  /\ \E t \in Callers : th[t].pc = "destroy_free"
  /\ BeingDestroyed # {}
====
